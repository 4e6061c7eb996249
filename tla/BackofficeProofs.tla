--------------------------- MODULE BackofficeProofs ---------------------------
(***************************************************************************)
(* What holds of the parts that share no state with each other, for every  *)
(* value of their constants: the dossier job, the competitions, the        *)
(* letters, the questions, the documents and the leaderboard's sockets.    *)
(* Each theorem is about the specification of one part.                    *)
(***************************************************************************)
EXTENDS Backoffice, FiniteSetTheorems, SequenceTheorems, WellFoundedInduction, TLAPS

-----------------------------------------------------------------------------
(* The dossier job.                                                        *)

(* A run that is about to say DONE has stored its file.                    *)
ReportedIsStored == \A w \in Workers : run[w].pc = "report" => file
IInv == TypeOK /\ ReportedIsStored /\ DoneHasFile

LEMMA RunType ==
  ASSUME TypeOK, NEW w \in Workers
  PROVE  /\ Ended(w) \in [Workers -> Runs]
         /\ Ended(w)[w] = Resting
         /\ \A v \in Workers \ {w} : Ended(w)[v] = run[v]
BY JobsAssumption DEF TypeOK, Ended, Resting, Levels, Runs

LEMMA RequeuedType ==
  ASSUME TypeOK, NEW w \in Workers
  PROVE  /\ Requeued(w) \in [Levels -> Nat]
         /\ \E k \in Levels : Requeued(w)[k] > 0
<1>1. run[w].retries \in Levels
  BY DEF TypeOK, Runs
<1> DEFINE k == IF run[w].retries < MaxRetries THEN run[w].retries + 1 ELSE MaxRetries
<1>2. k \in Levels
  BY <1>1, JobsAssumption DEF Levels
<1>3. Requeued(w) = [queue EXCEPT ![k] = @ + 1]
  BY DEF Requeued
<1>4. queue \in [Levels -> Nat]
  BY DEF TypeOK
<1> HIDE DEF k
<1>5. Requeued(w) \in [Levels -> Nat] /\ Requeued(w)[k] > 0
  BY <1>2, <1>3, <1>4
<1> QED BY <1>2, <1>5

(* Every action keeps the type invariant.                                  *)
LEMMA TypeStep == TypeOK /\ [Next]_vars => TypeOK'
<1> SUFFICES ASSUME TypeOK, [Next]_vars PROVE TypeOK'
  OBVIOUS
<1> USE JobsAssumption
<1>1. CASE Start
  BY <1>1 DEF Start, TypeOK, Levels
<1>2. CASE Expire
  BY <1>2 DEF Expire, TypeOK
<1>3. ASSUME NEW w \in Workers, Take(w) PROVE TypeOK'
  <2>1. PICK k \in Levels :
          /\ queue[k] > 0 /\ queue' = [queue EXCEPT ![k] = @ - 1]
          /\ run' = [run EXCEPT ![w] = [Resting EXCEPT !.pc = "render", !.retries = k]]
    BY <1>3 DEF Take, Queued
  <2>2. queue' \in [Levels -> Nat]
    BY <2>1 DEF TypeOK
  <2>3. [Resting EXCEPT !.pc = "render", !.retries = k]
          \in Runs
    BY DEF Resting, Runs
  <2>4. run' \in [Workers -> Runs]
    BY <2>1, <2>3 DEF TypeOK
  <2> QED BY <1>3, <2>2, <2>4 DEF Take, TypeOK
<1>4. ASSUME NEW w \in Workers, Render(w) PROVE TypeOK'
  <2>1. run' = [run EXCEPT ![w].next = @ + 1, ![w].rendered = @ + 1]
        \/ run' = [run EXCEPT ![w].next = @ + 1]
    BY <1>4 DEF Render
  <2>2. run' \in [Workers -> Runs]
    BY <2>1 DEF TypeOK, Runs
  <2>3. queue' \in [Levels -> Nat]
    BY <1>4, RequeuedType DEF Render, TypeOK
  <2> QED BY <1>4, <2>2, <2>3 DEF Render, TypeOK
<1>5. ASSUME NEW w \in Workers, Pack(w) PROVE TypeOK'
  <2>1. [run EXCEPT ![w].pc = "upload"] \in [Workers -> Runs]
    BY DEF TypeOK, Runs
  <2>2. run' \in [Workers -> Runs] /\ state' \in {state, "FAILED"}
    BY <1>5, <2>1, RunType DEF Pack
  <2> QED BY <1>5, <2>2 DEF Pack, TypeOK
<1>6. ASSUME NEW w \in Workers, Upload(w) PROVE TypeOK'
  <2>1. [run EXCEPT ![w].pc = "report"] \in [Workers -> Runs]
    BY DEF TypeOK, Runs
  <2>2. run' \in [Workers -> Runs] /\ broken' \in {broken, TRUE} /\ file' \in {file, TRUE}
    BY <1>6, <2>1, RunType DEF Upload
  <2> QED BY <1>6, <2>2 DEF Upload, TypeOK
<1>7. ASSUME NEW w \in Workers, Report(w) PROVE TypeOK'
  BY <1>7, RunType DEF Report, TypeOK
<1>8. ASSUME NEW w \in Workers, Crash(w) PROVE TypeOK'
  <2>1. queue' \in [Levels -> Nat]
    BY <1>8 DEF Crash, TypeOK, Runs
  <2>2. crashes' \in 0..MaxCrashes
    BY <1>8 DEF Crash, TypeOK
  <2>3. run' \in [Workers -> Runs] /\ broken' \in {broken, TRUE}
    BY <1>8, RunType DEF Crash
  <2> QED BY <1>8, <2>1, <2>2, <2>3 DEF Crash, TypeOK
<1>9. CASE UNCHANGED vars
  BY <1>9 DEF vars, TypeOK
<1> QED BY <1>1, <1>2, <1>3, <1>4, <1>5, <1>6, <1>7, <1>8, <1>9 DEF Next

LEMMA InductiveInit == Init => IInv
<1> SUFFICES ASSUME Init PROVE IInv
  OBVIOUS
<1>1. Resting \in Runs /\ 0 \in 0..MaxCrashes
  BY JobsAssumption DEF Resting, Levels, Runs
<1>2. TypeOK
  BY <1>1 DEF Init, TypeOK
<1> QED BY <1>2 DEF Init, IInv, ReportedIsStored, DoneHasFile, Polled, Resting

(* The file is stored before a run says DONE, and never taken away.        *)
LEMMA InductiveStep == IInv /\ [Next]_vars => IInv'
<1> SUFFICES ASSUME IInv, [Next]_vars PROVE IInv'
  OBVIOUS
<1>1. TypeOK /\ TypeOK'
  BY TypeStep DEF IInv
<1> USE DEF IInv, ReportedIsStored, DoneHasFile, Polled
<1>2. CASE Start
  BY <1>1, <1>2 DEF Start
<1>3. CASE Expire
  BY <1>1, <1>3 DEF Expire
<1>4. ASSUME NEW w \in Workers, Take(w) PROVE IInv'
  BY <1>1, <1>4 DEF Take, TypeOK, Resting
<1>5. ASSUME NEW w \in Workers, Render(w) PROVE IInv'
  <2>1. \A v \in Workers : run'[v].pc = run[v].pc
    BY <1>1, <1>5 DEF Render, TypeOK, Runs
  <2> QED BY <1>1, <1>5, <2>1 DEF Render
<1>6. ASSUME NEW w \in Workers, Pack(w) PROVE IInv'
  <2>1. \A v \in Workers : run'[v].pc = "report" => run[v].pc = "report"
    <3>1. CASE run' = Ended(w)
      BY <1>1, <3>1, RunType DEF Resting
    <3>2. CASE run' = [run EXCEPT ![w].pc = "upload"]
      BY <1>1, <3>2 DEF TypeOK, Runs
    <3> QED BY <1>6, <3>1, <3>2 DEF Pack
  <2> QED BY <1>1, <1>6, <2>1 DEF Pack
<1>7. ASSUME NEW w \in Workers, Upload(w) PROVE IInv'
  BY <1>1, <1>7, RunType DEF Upload, TypeOK, Resting
<1>8. ASSUME NEW w \in Workers, Report(w) PROVE IInv'
  BY <1>1, <1>8, RunType DEF Report, TypeOK, Resting
<1>9. ASSUME NEW w \in Workers, Crash(w) PROVE IInv'
  BY <1>1, <1>9, RunType DEF Crash, TypeOK, Resting
<1>10. CASE UNCHANGED vars
  BY <1>1, <1>10 DEF vars
<1> QED BY <1>2, <1>3, <1>4, <1>5, <1>6, <1>7, <1>8, <1>9, <1>10 DEF Next

(* The dossier job keeps its variables in their domains (workers/tasks.py).*)
THEOREM JobTypeCorrect == Spec => []TypeOK
<1>1. IInv => TypeOK
  BY DEF IInv
<1> QED BY <1>1, InductiveInit, InductiveStep, PTL DEF Spec

(* DONE is never reported without the ZIP, whatever retries, redeliveries  *)
(* and lost workers do (generate_bulk_dossiers_task).                      *)
THEOREM DoneIsStored == Spec => []DoneHasFile
<1>1. IInv => DoneHasFile
  BY DEF IInv
<1> QED BY <1>1, InductiveInit, InductiveStep, PTL DEF Spec
-----------------------------------------------------------------------------
LEMMA SettledInit == Init => SettledInTheEnd
BY DEF Init, SettledInTheEnd, Polled

(* A run that is the last one leaves a last word, and a task that is       *)
(* queued again is not the last run.                                       *)
LEMMA SettledStep == TypeOK /\ SettledInTheEnd /\ [Next]_vars => SettledInTheEnd'
<1> SUFFICES ASSUME TypeOK, SettledInTheEnd, [Next]_vars PROVE SettledInTheEnd'
  OBVIOUS
<1>0. TypeOK'
  BY TypeStep
<1> USE JobsAssumption DEF SettledInTheEnd, Polled, Running, Queued
<1>1. CASE Start
  BY <1>1 DEF Start, TypeOK, Levels
<1>2. CASE Expire
  BY <1>2 DEF Expire
<1>3. ASSUME NEW w \in Workers, Take(w) PROVE SettledInTheEnd'
  <2>1. run'[w].pc = "render"
    BY <1>3 DEF Take, TypeOK, Resting
  <2> QED BY <2>1
<1>4. ASSUME NEW w \in Workers, Render(w) PROVE SettledInTheEnd'
  <2>1. run'[w].pc = "render"
    BY <1>4 DEF Render, TypeOK, Runs
  <2> QED BY <2>1
<1>5. ASSUME NEW w \in Workers, Pack(w) PROVE SettledInTheEnd'
  <2>1. CASE run[w].rendered = 0
    BY <1>5, <2>1 DEF Pack
  <2>2. CASE run[w].rendered # 0
    <3>1. run'[w].pc = "upload"
      BY <1>5, <2>2 DEF Pack, TypeOK, Runs
    <3> QED BY <3>1
  <2> QED BY <2>1, <2>2
<1>6. ASSUME NEW w \in Workers, Upload(w) PROVE SettledInTheEnd'
  <2>1. run'[w].pc = "report" \/ broken'
    BY <1>6 DEF Upload, TypeOK, Runs
  <2> QED BY <2>1
<1>7. ASSUME NEW w \in Workers, Report(w) PROVE SettledInTheEnd'
  BY <1>7 DEF Report
<1>8. ASSUME NEW w \in Workers, Crash(w) PROVE SettledInTheEnd'
  <2>1. run[w].retries \in Levels /\ queue[run[w].retries] \in Nat
    BY DEF TypeOK, Runs
  <2>2. broken' \/ queue'[run[w].retries] > 0
    BY <1>8, <2>1 DEF Crash, TypeOK
  <2> QED BY <2>1, <2>2
<1>9. CASE UNCHANGED vars
  BY <1>9 DEF vars
<1> QED BY <1>1, <1>2, <1>3, <1>4, <1>5, <1>6, <1>7, <1>8, <1>9 DEF Next

(* When every run has ended, the job does not say RUNNING for ever, unless *)
(* a run was lost or could not upload (generate_bulk_dossiers_task).       *)
THEOREM JobSettles == Spec => []SettledInTheEnd
<1> QED BY JobTypeCorrect, SettledInit, SettledStep, PTL DEF Spec

-----------------------------------------------------------------------------
(* The number of runs: the retries that a run may lead to are the nodes    *)
(* below it, and those of the messages and of the runs under way are never *)
(* more than what one delivery of the task or more may lead to.            *)
Paths(m) == UNION {[1..k -> Faulty] : k \in 0..m}
(* The sets F[d], kept apart by d.                                         *)
Tagged(Index, F) == UNION {{d} \X F[d] : d \in Index}

LEMMA PathsAre ==
  ASSUME NEW m \in Nat
  PROVE  \A p : p \in Paths(m) <=> p \in Seq(Faulty) /\ Len(p) <= m
<1>1. ASSUME NEW p \in Paths(m) PROVE p \in Seq(Faulty) /\ Len(p) <= m
  <2>1. PICK k \in 0..m : p \in [1..k -> Faulty]
    BY DEF Paths
  <2>2. p \in Seq(Faulty)
    BY <2>1, SeqDef
  <2>3. Len(p) = k
    BY <2>1, <2>2
  <2> QED BY <2>1, <2>2, <2>3
<1>2. ASSUME NEW p \in Seq(Faulty), Len(p) <= m PROVE p \in Paths(m)
  <2>1. Len(p) \in 0..m /\ p \in [1..Len(p) -> Faulty]
    BY <1>2
  <2> QED BY <2>1 DEF Paths
<1> QED BY <1>1, <1>2

LEMMA PathsFinite ==
  ASSUME NEW m \in Nat
  PROVE  IsFiniteSet(Paths(m)) /\ Cardinality(Paths(m)) \in Nat /\ <<>> \in Paths(m)
<1>1. IsFiniteSet(Faulty)
  <2>1. IsFiniteSet(1..Dossiers)
    BY JobsAssumption, FS_Interval
  <2> QED BY <2>1, JobsAssumption, FS_Subset
<1>2. ASSUME NEW k \in Nat PROVE IsFiniteSet([1..k -> Faulty])
  <2> DEFINE G == (1..k) \X Faulty
             g == [f \in [1..k -> Faulty] |-> {q \in G : q[2] = f[q[1]]}]
  <2>1. IsFiniteSet(SUBSET G)
    <3>1. IsFiniteSet(1..k)
      BY FS_Interval
    <3>2. IsFiniteSet(G)
      BY <1>1, <3>1, FS_Product
    <3> HIDE DEF G
    <3> QED BY <3>2, FS_SUBSET
  <2>2. g \in [[1..k -> Faulty] -> SUBSET G]
    OBVIOUS
  <2>3. ASSUME NEW f \in [1..k -> Faulty], NEW h \in [1..k -> Faulty], g[f] = g[h] PROVE f = h
    <3>1. ASSUME NEW i \in 1..k PROVE f[i] = h[i]
      <4>1. <<i, f[i]>> \in g[f]
        OBVIOUS
      <4>2. <<i, f[i]>> \in g[h]
        BY <2>3, <4>1
      <4> QED BY <4>2
    <3> QED BY <3>1
  <2> HIDE DEF g, G
  <2>4. g \in Injection([1..k -> Faulty], SUBSET G)
    BY <2>2, <2>3 DEF Injection, IsInjective
  <2> QED BY <2>1, <2>4, FS_Injection
<1>3. IsFiniteSet(Paths(m))
  <2> DEFINE f == [k \in 0..m |-> [1..k -> Faulty]]
             S == {[1..k -> Faulty] : k \in 0..m}
  <2>1. f \in Surjection(0..m, S)
    BY DEF Surjection
  <2>2. IsFiniteSet(0..m)
    BY FS_Interval
  <2>3. \A U \in S : IsFiniteSet(U)
    BY <1>2
  <2> HIDE DEF f, S
  <2>4. IsFiniteSet(S)
    BY <2>1, <2>2, FS_Surjection
  <2>5. IsFiniteSet(UNION S)
    BY <2>3, <2>4, FS_UNION
  <2> QED BY <2>5 DEF Paths, S
<1>4. <<>> \in Paths(m)
  <2>1. <<>> \in [1..0 -> Faulty] /\ 0 \in 0..m
    OBVIOUS
  <2> QED BY <2>1 DEF Paths
<1> QED BY <1>3, <1>4, FS_CardinalityType

LEMMA PathsMonotone ==
  ASSUME NEW m \in Nat, NEW n \in Nat, m <= n PROVE Cardinality(Paths(m)) <= Cardinality(Paths(n))
<1>1. Paths(m) \subseteq Paths(n)
  BY DEF Paths
<1> QED BY <1>1, PathsFinite, FS_Subset

(* A run and the runs below each of its failing students.                  *)
LEMMA PathsGrow ==
  ASSUME NEW m \in Nat
  PROVE  /\ IsFiniteSet(Faulty \X Paths(m))
         /\ 1 + Cardinality(Faulty \X Paths(m)) <= Cardinality(Paths(m + 1))
<1> DEFINE S == Faulty \X Paths(m)
           U == Paths(m + 1) \ {<<>>}
           g == [q \in S |-> Append(q[2], q[1])]
<1>1. /\ IsFiniteSet(Paths(m + 1)) /\ <<>> \in Paths(m + 1) /\ Cardinality(Paths(m + 1)) \in Nat
  BY PathsFinite
<1>2. IsFiniteSet(U) /\ Cardinality(U) = Cardinality(Paths(m + 1)) - 1
  BY <1>1, FS_RemoveElement
<1>3. ASSUME NEW q \in S
      PROVE  /\ q[1] \in Faulty /\ q[2] \in Seq(Faulty) /\ Len(q[2]) <= m
             /\ q = <<q[1], q[2]>> /\ g[q] = Append(q[2], q[1])
  BY PathsAre
<1>4. \A q \in S : g[q] \in U
  <2> SUFFICES ASSUME NEW q \in S PROVE Append(q[2], q[1]) \in U
    BY <1>3
  <2>1. /\ Append(q[2], q[1]) \in Seq(Faulty) /\ Append(q[2], q[1]) # <<>>
        /\ Len(Append(q[2], q[1])) <= m + 1
    BY <1>3, AppendProperties
  <2>2. m + 1 \in Nat
    OBVIOUS
  <2>3. Append(q[2], q[1]) \in Paths(m + 1)
    BY <2>1, <2>2, PathsAre
  <2> QED BY <2>1, <2>3
<1>5. ASSUME NEW q \in S, NEW r \in S, g[q] = g[r] PROVE q = r
  <2>1. Append(q[2], q[1]) = Append(r[2], r[1])
    BY <1>3, <1>5
  <2>2. q[1] = r[1] /\ q[2] = r[2]
    <3> DEFINE a == q[2]
               b == r[2]
    <3>1. /\ a \in Seq(Faulty) /\ b \in Seq(Faulty) /\ q[1] \in Faulty /\ r[1] \in Faulty
          /\ Append(a, q[1]) = Append(b, r[1])
      BY <1>3, <2>1
    <3> HIDE DEF a, b
    <3>2. /\ Len(Append(a, q[1])) = Len(a) + 1 /\ Append(a, q[1])[Len(a) + 1] = q[1]
          /\ \A i \in 1..Len(a) : Append(a, q[1])[i] = a[i]
          /\ Len(Append(b, r[1])) = Len(b) + 1 /\ Append(b, r[1])[Len(b) + 1] = r[1]
          /\ \A i \in 1..Len(b) : Append(b, r[1])[i] = b[i]
      <4>1. ASSUME NEW c \in Seq(Faulty), NEW x \in Faulty
            PROVE  /\ Len(Append(c, x)) = Len(c) + 1 /\ Append(c, x)[Len(c) + 1] = x
                   /\ \A i \in 1..Len(c) : Append(c, x)[i] = c[i]
        BY AppendProperties
      <4> QED BY <3>1, <4>1
    <3>3. Len(a) = Len(b)
      BY <3>1, <3>2
    <3>4. q[1] = r[1] /\ \A i \in 1..Len(a) : a[i] = b[i]
      BY <3>1, <3>2, <3>3
    <3>5. a = b
      BY <3>1, <3>3, <3>4
    <3> QED BY <3>4, <3>5 DEF a, b
  <2> QED BY <1>3, <2>2
<1>6. g \in Injection(S, U)
  <2>1. g \in [S -> U]
    BY <1>4
  <2> HIDE DEF S, U, g
  <2> QED BY <1>5, <2>1 DEF Injection, IsInjective
<1> HIDE DEF S, U, g
<1>7. IsFiniteSet(S) /\ Cardinality(S) <= Cardinality(U)
  BY <1>2, <1>6, FS_Injection
<1>8. Cardinality(S) \in Nat
  BY <1>7, FS_CardinalityType
<1> QED BY <1>1, <1>2, <1>7, <1>8 DEF S

(* One of the sets changes.                                                *)
LEMMA TaggedChange ==
  ASSUME NEW Index, IsFiniteSet(Index), NEW F, NEW G, NEW d \in Index,
         \A e \in Index : IsFiniteSet(F[e]) /\ IsFiniteSet(G[e]), \A e \in Index \ {d} : F[e] = G[e]
  PROVE  /\ IsFiniteSet(Tagged(Index, F)) /\ IsFiniteSet(Tagged(Index, G))
         /\ Cardinality(Tagged(Index, F)) \in Nat /\ Cardinality(Tagged(Index, G)) \in Nat
         /\ Cardinality(F[d]) \in Nat /\ Cardinality(G[d]) \in Nat
         /\ Cardinality(Tagged(Index, F)) + Cardinality(G[d])
              = Cardinality(Tagged(Index, G)) + Cardinality(F[d])
<1> DEFINE O == UNION {{e} \X F[e] : e \in Index \ {d}}
<1>1. O = UNION {{e} \X G[e] : e \in Index \ {d}}
  <2>1. {{e} \X F[e] : e \in Index \ {d}} = {{e} \X G[e] : e \in Index \ {d}}
    OBVIOUS
  <2> QED BY <2>1
<1>2. Tagged(Index, F) = O \cup ({d} \X F[d]) /\ Tagged(Index, G) = O \cup ({d} \X G[d])
  BY <1>1 DEF Tagged
<1>3. O \cap ({d} \X F[d]) = {} /\ O \cap ({d} \X G[d]) = {}
  OBVIOUS
<1>4. IsFiniteSet(O)
  <2> DEFINE E == Index \ {d}
             f == [e \in E |-> {e} \X F[e]]
             S == {{e} \X F[e] : e \in E}
  <2>1. f \in Surjection(E, S)
    BY DEF Surjection
  <2>2. IsFiniteSet(E)
    BY FS_RemoveElement
  <2>3. ASSUME NEW U \in S PROVE IsFiniteSet(U)
    <3>1. PICK e \in Index : U = {e} \X F[e]
      OBVIOUS
    <3> QED BY <3>1, FS_Singleton, FS_Product
  <2> HIDE DEF f, S
  <2>4. IsFiniteSet(S)
    BY <2>1, <2>2, FS_Surjection
  <2>5. IsFiniteSet(UNION S)
    BY <2>3, <2>4, FS_UNION
  <2> QED BY <2>5 DEF S
<1>5. ASSUME NEW A, IsFiniteSet(A)
      PROVE  IsFiniteSet({d} \X A) /\ Cardinality({d} \X A) = Cardinality(A) /\ Cardinality(A) \in Nat
  <2>1. IsFiniteSet({d}) /\ Cardinality({d}) = 1 /\ Cardinality(A) \in Nat
    BY <1>5, FS_Singleton, FS_CardinalityType
  <2>2. IsFiniteSet({d} \X A) /\ Cardinality({d} \X A) = Cardinality({d}) * Cardinality(A)
    BY <1>5, <2>1, FS_Product
  <2> QED BY <2>1, <2>2
<1>6. ASSUME NEW A, IsFiniteSet(A), O \cap ({d} \X A) = {}
      PROVE  /\ IsFiniteSet(O \cup ({d} \X A)) /\ Cardinality(O) \in Nat
             /\ Cardinality(O \cup ({d} \X A)) = Cardinality(O) + Cardinality(A)
  <2> HIDE DEF O
  <2>1. IsFiniteSet({d} \X A) /\ Cardinality({d} \X A) = Cardinality(A) /\ Cardinality(A) \in Nat
    BY <1>5, <1>6
  <2>2. /\ IsFiniteSet(O \cup ({d} \X A))
        /\ Cardinality(O \cup ({d} \X A))
             = Cardinality(O) + Cardinality({d} \X A) - Cardinality(O \cap ({d} \X A))
    BY <1>4, <2>1, FS_Union
  <2>3. Cardinality(O \cap ({d} \X A)) = 0 /\ Cardinality(O) \in Nat
    BY <1>4, <1>6, FS_EmptySet, FS_CardinalityType
  <2> QED BY <2>1, <2>2, <2>3
<1> HIDE DEF O
<1>7. /\ IsFiniteSet(Tagged(Index, F)) /\ Cardinality(Tagged(Index, F)) = Cardinality(O) + Cardinality(F[d])
      /\ IsFiniteSet(Tagged(Index, G)) /\ Cardinality(Tagged(Index, G)) = Cardinality(O) + Cardinality(G[d])
      /\ Cardinality(O) \in Nat
  BY <1>2, <1>3, <1>6
<1>8. Cardinality(F[d]) \in Nat /\ Cardinality(G[d]) \in Nat
  BY <1>5
<1> QED BY <1>7, <1>8

LEMMA TaggedEmpty ==
  ASSUME NEW Index, NEW F, \A d \in Index : F[d] = {} PROVE Tagged(Index, F) = {}
BY DEF Tagged

-----------------------------------------------------------------------------
(* What the messages and the runs under way may still lead to.             *)
Waiting(q) == [k \in Levels |-> (1..q[k]) \X Paths(MaxRetries - k)]
ToFail(t) == {x \in Faulty : t.pc = "render" /\ t.next <= x /\ t.retries < MaxRetries}
Below(t) == ToFail(t) \X Paths(MaxRetries - t.retries - 1)
Under(r) == [w \in Workers |-> Below(r[w])]
InQueue(q) == Cardinality(Tagged(Levels, Waiting(q)))
InRuns(r) == Cardinality(Tagged(Workers, Under(r)))
Tree(k) == Cardinality(Paths(MaxRetries - k))

RunsInv ==
  /\ runs + InQueue(queue) + InRuns(run) <= (1 + crashes) * Tree(0)
  /\ runs = 0 => Running = {}

LEMMA Trees ==
  ASSUME NEW k \in Levels
  PROVE  /\ k \in Nat /\ MaxRetries - k \in Nat /\ Tree(k) \in Nat /\ Tree(0) \in Nat
         /\ 1 <= Tree(k) /\ Tree(k) <= Tree(0)
         /\ IsFiniteSet(Paths(MaxRetries - k))
<1>1. k \in Nat /\ MaxRetries - k \in Nat /\ MaxRetries - k <= MaxRetries - 0 /\ MaxRetries - 0 \in Nat
  BY JobsAssumption DEF Levels
<1>2. /\ IsFiniteSet(Paths(MaxRetries - k)) /\ Tree(k) \in Nat /\ <<>> \in Paths(MaxRetries - k)
      /\ Tree(0) \in Nat
  BY <1>1, PathsFinite DEF Tree
<1>3. Tree(k) <= Tree(0)
  BY <1>1, PathsMonotone DEF Tree
<1>4. Tree(k) # 0
  BY <1>2, FS_EmptySet DEF Tree
<1> QED BY <1>1, <1>2, <1>3, <1>4

LEMMA QueueSizes ==
  ASSUME NEW F, NEW G, NEW k \in Levels, IsFiniteSet(Levels),
         \A e \in Levels : IsFiniteSet(F[e]) /\ IsFiniteSet(G[e]),
         \A e \in Levels \ {k} : F[e] = G[e]
  PROVE  /\ Cardinality(Tagged(Levels, F)) \in Nat /\ Cardinality(Tagged(Levels, G)) \in Nat
         /\ Cardinality(Tagged(Levels, F)) + Cardinality(G[k])
              = Cardinality(Tagged(Levels, G)) + Cardinality(F[k])
BY TaggedChange

LEMMA QueueMore ==
  ASSUME NEW q \in [Levels -> Nat], NEW k \in Levels, NEW p, p = [q EXCEPT ![k] = @ + 1]
  PROVE  InQueue(q) \in Nat /\ InQueue(p) \in Nat /\ InQueue(p) = InQueue(q) + Tree(k)
<1>1. p \in [Levels -> Nat] /\ p[k] = q[k] + 1 /\ \A e \in Levels \ {k} : p[e] = q[e]
  OBVIOUS
<1>2. ASSUME NEW e \in Levels, NEW n \in Nat
      PROVE  /\ IsFiniteSet((1..n) \X Paths(MaxRetries - e))
             /\ Cardinality((1..n) \X Paths(MaxRetries - e)) = n * Tree(e)
  <2>1. IsFiniteSet(1..n) /\ Cardinality(1..n) = n
    <3>1. 1 \in Int /\ n \in Int
      OBVIOUS
    <3>2. IsFiniteSet(1..n) /\ Cardinality(1..n) = IF 1 > n THEN 0 ELSE n-1+1
      BY <3>1, FS_Interval, Zenon
    <3> QED BY <3>2
  <2>2. IsFiniteSet(Paths(MaxRetries - e))
    BY Trees
  <2> QED BY <2>1, <2>2, FS_Product DEF Tree
<1>3. IsFiniteSet(Levels)
  BY JobsAssumption, FS_Interval DEF Levels
<1>4. /\ \A e \in Levels : IsFiniteSet(Waiting(q)[e]) /\ IsFiniteSet(Waiting(p)[e])
      /\ \A e \in Levels \ {k} : Waiting(q)[e] = Waiting(p)[e]
  BY <1>1, <1>2 DEF Waiting
<1>5. /\ Cardinality(Waiting(q)[k]) = q[k] * Tree(k)
      /\ Cardinality(Waiting(p)[k]) = (q[k] + 1) * Tree(k)
  BY <1>1, <1>2 DEF Waiting
<1>6. /\ InQueue(q) \in Nat /\ InQueue(p) \in Nat
      /\ InQueue(q) + Cardinality(Waiting(p)[k]) = InQueue(p) + Cardinality(Waiting(q)[k])
  <2>1. PICK F, G : F = Waiting(q) /\ G = Waiting(p)
    OBVIOUS
  <2>a. /\ \A e \in Levels : IsFiniteSet(F[e]) /\ IsFiniteSet(G[e])
        /\ \A e \in Levels \ {k} : F[e] = G[e]
    BY <1>4, <2>1
  <2>2. /\ Cardinality(Tagged(Levels, F)) \in Nat /\ Cardinality(Tagged(Levels, G)) \in Nat
        /\ Cardinality(Tagged(Levels, F)) + Cardinality(G[k])
             = Cardinality(Tagged(Levels, G)) + Cardinality(F[k])
    BY <1>3, <2>a, QueueSizes
  <2> QED BY <2>1, <2>2 DEF InQueue
<1>7. q[k] \in Nat /\ Tree(k) \in Nat
  BY Trees
<1>8. (q[k] + 1) * Tree(k) = q[k] * Tree(k) + Tree(k) /\ q[k] * Tree(k) \in Nat
  BY <1>7
<1> QED BY <1>5, <1>6, <1>7, <1>8

LEMMA BelowFinite ==
  ASSUME NEW t \in Runs
  PROVE  /\ IsFiniteSet(ToFail(t)) /\ IsFiniteSet(Below(t)) /\ Cardinality(Below(t)) \in Nat
         /\ t.pc = "render" /\ t.retries < MaxRetries =>
              Cardinality(Below(t)) = Cardinality(ToFail(t)) * Tree(t.retries + 1)
         /\ t.pc # "render" \/ t.retries = MaxRetries => Below(t) = {} /\ Cardinality(Below(t)) = 0
<1>1. IsFiniteSet(ToFail(t))
  <2>1. IsFiniteSet(1..Dossiers)
    BY JobsAssumption, FS_Interval
  <2>2. ToFail(t) \subseteq 1..Dossiers
    BY JobsAssumption DEF ToFail
  <2> QED BY <2>1, <2>2, FS_Subset
<1>2. t.retries \in Nat /\ t.retries <= MaxRetries /\ t.retries \in Levels
  BY JobsAssumption DEF Runs, Levels
<1>3. CASE t.pc = "render" /\ t.retries < MaxRetries
  <2>1. t.retries + 1 \in Levels /\ MaxRetries - (t.retries + 1) = MaxRetries - t.retries - 1
    BY <1>2, <1>3, JobsAssumption DEF Levels
  <2>2. IsFiniteSet(Paths(MaxRetries - t.retries - 1))
    BY <2>1, Trees
  <2>3. IsFiniteSet(Below(t))
        /\ Cardinality(Below(t)) = Cardinality(ToFail(t)) * Tree(t.retries + 1)
    BY <1>1, <2>1, <2>2, FS_Product DEF Below, Tree
  <2> QED BY <1>1, <1>2, <1>3, <2>3, FS_CardinalityType
<1>4. CASE ~(t.pc = "render" /\ t.retries < MaxRetries)
  <2>1. Below(t) = {}
    BY <1>4 DEF Below, ToFail
  <2> QED BY <1>1, <1>4, <2>1, FS_EmptySet
<1> QED BY <1>3, <1>4

LEMMA RunChange ==
  ASSUME NEW r \in [Workers -> Runs], NEW w \in Workers, NEW t \in Runs,
         NEW u \in [Workers -> Runs], u[w] = t, \A v \in Workers \ {w} : u[v] = r[v]
  PROVE  /\ InRuns(r) \in Nat /\ InRuns(u) \in Nat
         /\ InRuns(u) + Cardinality(Below(r[w])) = InRuns(r) + Cardinality(Below(t))
<1>2. \A v \in Workers : IsFiniteSet(Under(r)[v]) /\ IsFiniteSet(Under(u)[v])
  BY BelowFinite DEF Under
<1>3. /\ \A v \in Workers \ {w} : Under(r)[v] = Under(u)[v]
      /\ Under(r)[w] = Below(r[w]) /\ Under(u)[w] = Below(t)
  BY DEF Under
<1>4. /\ InRuns(r) \in Nat /\ InRuns(u) \in Nat
      /\ InRuns(r) + Cardinality(Under(u)[w]) = InRuns(u) + Cardinality(Under(r)[w])
  <2>1. PICK F, G : F = Under(r) /\ G = Under(u)
    OBVIOUS
  <2>a. /\ \A e \in Workers : IsFiniteSet(F[e]) /\ IsFiniteSet(G[e])
        /\ \A e \in Workers \ {w} : F[e] = G[e]
    BY <1>2, <1>3, <2>1
  <2>b. IsFiniteSet(Workers)
    BY JobsAssumption
  <2>2. /\ Cardinality(Tagged(Workers, F)) \in Nat /\ Cardinality(Tagged(Workers, G)) \in Nat
        /\ Cardinality(Tagged(Workers, F)) + Cardinality(G[w])
             = Cardinality(Tagged(Workers, G)) + Cardinality(F[w])
    BY <2>a, <2>b, TaggedChange
  <2> QED BY <2>1, <2>2 DEF InRuns
<1> QED BY <1>3, <1>4

(* A run that begins is the root of what its message may lead to.          *)
LEMMA BelowStart ==
  ASSUME NEW k \in Levels, NEW t \in Runs, t.pc = "render", t.next = 1, t.retries = k
  PROVE  Cardinality(Below(t)) + 1 <= Tree(k)
<1>1. k \in Nat /\ Tree(k) \in Nat /\ 1 <= Tree(k) /\ k <= MaxRetries
  BY Trees, JobsAssumption DEF Levels
<1>2. CASE k = MaxRetries
  BY <1>1, <1>2, BelowFinite
<1>3. CASE k < MaxRetries
  <2>1. ToFail(t) = Faulty
    <3>1. \A x \in Faulty : 1 <= x
      BY JobsAssumption
    <3> QED BY <1>3, <3>1 DEF ToFail
  <2>2. MaxRetries - k - 1 \in Nat /\ (MaxRetries - k - 1) + 1 = MaxRetries - k
    BY <1>1, <1>3, JobsAssumption
  <2>3. 1 + Cardinality(Faulty \X Paths(MaxRetries - k - 1)) <= Tree(k)
    BY <2>2, PathsGrow DEF Tree
  <2>4. Cardinality(Below(t)) \in Nat /\ Below(t) = Faulty \X Paths(MaxRetries - k - 1)
    BY <2>1, BelowFinite DEF Below
  <2> QED BY <1>1, <2>3, <2>4
<1> QED BY <1>1, <1>2, <1>3, JobsAssumption

(* The next student: what is below him is queued, or given up.             *)
LEMMA BelowNext ==
  ASSUME NEW t \in Runs, NEW u \in Runs, t.pc = "render", u.pc = "render",
         u.next = t.next + 1, u.retries = t.retries
  PROVE  /\ Cardinality(Below(u)) <= Cardinality(Below(t))
         /\ t.next \in Faulty /\ t.retries < MaxRetries =>
              Cardinality(Below(t)) = Cardinality(Below(u)) + Tree(t.retries + 1)
<1>1. /\ IsFiniteSet(Below(t)) /\ Cardinality(Below(u)) \in Nat /\ IsFiniteSet(ToFail(u))
      /\ Cardinality(Below(t)) \in Nat /\ t.next \in Nat /\ t.retries \in Nat
  BY BelowFinite DEF Runs, Levels
<1>2. \A x \in Faulty : x \in Nat
  BY JobsAssumption
<1>3. ToFail(u) \subseteq ToFail(t)
  BY <1>1, <1>2 DEF ToFail
<1>4. Cardinality(Below(u)) <= Cardinality(Below(t))
  <2>1. Below(u) \subseteq Below(t)
    BY <1>3 DEF Below
  <2> QED BY <1>1, <2>1, FS_Subset
<1>5. ASSUME t.next \in Faulty, t.retries < MaxRetries
      PROVE  Cardinality(Below(t)) = Cardinality(Below(u)) + Tree(t.retries + 1)
  <2>1. ToFail(t) = ToFail(u) \cup {t.next} /\ t.next \notin ToFail(u)
    BY <1>1, <1>2, <1>5 DEF ToFail
  <2>2. Cardinality(ToFail(t)) = Cardinality(ToFail(u)) + 1 /\ Cardinality(ToFail(u)) \in Nat
    BY <1>1, <2>1, FS_AddElement, FS_CardinalityType
  <2>3. t.retries + 1 \in Levels
    BY <1>1, <1>5, JobsAssumption DEF Levels
  <2>4. PICK c \in Nat : c = Tree(t.retries + 1)
    BY <2>3, Trees
  <2>5. PICK n \in Nat : n = Cardinality(ToFail(u))
    BY <2>2
  <2>6. Cardinality(Below(t)) = (n + 1) * c /\ Cardinality(Below(u)) = n * c
    BY <1>5, <2>2, <2>4, <2>5, BelowFinite
  <2>7. (n + 1) * c = n * c + c
    OBVIOUS
  <2> QED BY <2>4, <2>6, <2>7
<1> QED BY <1>4, <1>5

LEMMA RunsInitially == Init => RunsInv
<1> SUFFICES ASSUME Init PROVE RunsInv
  OBVIOUS
<1>1. /\ \A k \in Levels : Waiting(queue)[k] = {}
      /\ \A w \in Workers : Under(run)[w] = {}
  BY DEF Init, Waiting, Under, Below, ToFail, Resting
<1>2. InQueue(queue) = 0 /\ InRuns(run) = 0
  BY <1>1, TaggedEmpty, FS_EmptySet DEF InQueue, InRuns
<1>3. Running = {} /\ runs = 0 /\ crashes = 0
  BY DEF Init, Running, Resting
<1>4. 0 \in Levels
  BY JobsAssumption DEF Levels
<1>5. Tree(0) \in Nat
  BY <1>4, Trees
<1> QED BY <1>2, <1>3, <1>5 DEF RunsInv

LEMMA RunsStep == TypeOK /\ RunsInv /\ [Next]_vars => RunsInv'
<1> SUFFICES ASSUME TypeOK, RunsInv, [Next]_vars PROVE RunsInv'
  OBVIOUS
<1>0. /\ 0 \in Levels /\ MaxRetries \in Levels /\ Resting \in Runs /\ Tree(0) \in Nat
      /\ runs \in Nat /\ crashes \in Nat /\ queue \in [Levels -> Nat] /\ run \in [Workers -> Runs]
  <2>1. 0 \in Levels /\ MaxRetries \in Levels
    BY JobsAssumption DEF Levels
  <2> QED BY <2>1, Trees, JobsAssumption DEF TypeOK, Resting, Runs
<1>a. InQueue(queue) \in Nat
  BY <1>0, QueueMore
<1>b. ASSUME NEW w \in Workers PROVE InRuns(run) \in Nat /\ Cardinality(Below(run[w])) \in Nat
  BY <1>0, RunChange, BelowFinite
<1>c. ASSUME NEW w \in Workers, NEW t \in Runs, run' = [run EXCEPT ![w] = t]
      PROVE  /\ InRuns(run) \in Nat /\ InRuns(run') \in Nat
             /\ InRuns(run') + Cardinality(Below(run[w])) = InRuns(run) + Cardinality(Below(t))
  <2>1. /\ run' \in [Workers -> Runs] /\ run'[w] = t
        /\ \A v \in Workers \ {w} : run'[v] = run[v]
    BY <1>0, <1>c
  <2> QED BY <1>0, <2>1, RunChange
<1>1. CASE Start
  <2>1. /\ queue' = [queue EXCEPT ![0] = @ + 1] /\ runs = 0 /\ Running = {}
        /\ UNCHANGED <<run, runs, crashes>>
    <3>1. \A k \in Levels : queue[k] = 0
      BY <1>0, <1>1 DEF Start, Queued
    <3>2. queue' = [queue EXCEPT ![0] = 1] /\ queue[0] = 0
      BY <1>0, <1>1, <3>1 DEF Start
    <3>3. queue' = [queue EXCEPT ![0] = queue[0] + 1]
      BY <3>2
    <3> QED BY <1>1, <3>3 DEF Start, RunsInv
  <2>2. InQueue(queue) = 0
    <3>1. \A k \in Levels : Waiting(queue)[k] = {}
      BY <1>0, <1>1 DEF Start, Queued, Waiting
    <3> QED BY <3>1, TaggedEmpty, FS_EmptySet DEF InQueue
  <2>3. InQueue(queue') = Tree(0)
    <3>1. InQueue(queue') = InQueue(queue) + Tree(0)
      BY <1>0, <2>1, QueueMore
    <3> QED BY <1>0, <2>2, <3>1
  <2>4. InRuns(run) = 0
    <3>1. \A w \in Workers : Under(run)[w] = {}
      BY <2>1 DEF Running, Under, Below, ToFail
    <3> QED BY <3>1, TaggedEmpty, FS_EmptySet DEF InRuns
  <2>5. InQueue(queue)' = Tree(0) /\ InRuns(run)' = 0 /\ Running' = Running
    BY <2>1, <2>3, <2>4 DEF InQueue, InRuns, Running
  <2>6. Tree(0) <= (1 + crashes) * Tree(0)
    BY <1>0
  <2> QED BY <1>0, <2>1, <2>5, <2>6 DEF RunsInv
<1>2. CASE Expire \/ UNCHANGED vars
  <2>1. UNCHANGED <<queue, run, runs, crashes>>
    BY <1>2 DEF Expire, vars
  <2> QED BY <2>1 DEF RunsInv, Running
<1>3. ASSUME NEW w \in Workers, Take(w) PROVE RunsInv'
  <2>1. PICK k \in Levels :
          /\ queue[k] > 0 /\ queue' = [queue EXCEPT ![k] = @ - 1]
          /\ run' = [run EXCEPT ![w] = [Resting EXCEPT !.pc = "render", !.retries = k]]
    BY <1>3 DEF Take, Queued
  <2>2. PICK t : t = [Resting EXCEPT !.pc = "render", !.retries = k]
    OBVIOUS
  <2>3. t \in Runs /\ t.pc = "render" /\ t.retries = k /\ t.next = 1
    BY <2>2 DEF Resting, Runs
  <2>4. Cardinality(Below(t)) + 1 <= Tree(k) /\ Cardinality(Below(t)) \in Nat /\ Tree(k) \in Nat
    BY <2>3, BelowStart, BelowFinite, Trees
  <2>5. InQueue(queue') \in Nat /\ InQueue(queue) = InQueue(queue') + Tree(k)
    <3>1. queue' \in [Levels -> Nat] /\ queue = [queue' EXCEPT ![k] = queue'[k] + 1]
      <4>1. queue' \in [Levels -> Nat] /\ queue'[k] = queue[k] - 1 /\ queue[k] \in Nat
        BY <1>0, <2>1
      <4>2. queue[k] = queue'[k] + 1
        BY <4>1
      <4> QED BY <1>0, <2>1, <4>1, <4>2
    <3> QED BY <3>1, QueueMore
  <2>6. InRuns(run') \in Nat /\ InRuns(run') = InRuns(run) + Cardinality(Below(t))
    <3>1. run' = [run EXCEPT ![w] = t]
      BY <2>1, <2>2
    <3>2. Cardinality(Below(run[w])) = 0
      BY <1>0, <1>3, BelowFinite DEF Take
    <3>3. /\ InRuns(run') \in Nat
          /\ InRuns(run') + Cardinality(Below(run[w])) = InRuns(run) + Cardinality(Below(t))
      BY <2>3, <3>1, <1>c
    <3> QED BY <1>b, <2>4, <3>2, <3>3
  <2>7. runs' = runs + 1 /\ crashes' = crashes /\ runs' # 0
    BY <1>0, <1>3 DEF Take
  <2>8. runs' + InQueue(queue') + InRuns(run') <= runs + InQueue(queue) + InRuns(run)
    BY <1>0, <1>b, <2>4, <2>5, <2>6, <2>7
  <2>9. PICK n \in Nat : n = (1 + crashes) * Tree(0)
    BY <1>0
  <2>10. runs' + InQueue(queue') + InRuns(run') <= n
    BY <1>0, <1>a, <1>b, <2>5, <2>6, <2>7, <2>8, <2>9 DEF RunsInv
  <2> QED BY <2>7, <2>9, <2>10 DEF RunsInv
(* No run begins and no worker is lost.                                    *)
<1>4. ASSUME NEW w \in Workers, NEW t \in Runs, run' = [run EXCEPT ![w] = t],
             w \in Running, UNCHANGED <<runs, crashes>>,
             \/ queue' = queue /\ Cardinality(Below(t)) <= Cardinality(Below(run[w]))
             \/ \E k \in Levels :
                  /\ queue' = [queue EXCEPT ![k] = @ + 1]
                  /\ Cardinality(Below(run[w])) = Cardinality(Below(t)) + Tree(k)
      PROVE  RunsInv'
  <2>1. /\ InRuns(run) \in Nat /\ InRuns(run') \in Nat
        /\ InRuns(run') + Cardinality(Below(run[w])) = InRuns(run) + Cardinality(Below(t))
    BY <1>4, <1>c
  <2>2. Cardinality(Below(t)) \in Nat /\ Cardinality(Below(run[w])) \in Nat
    BY <1>b, BelowFinite
  <2>3. InQueue(queue') \in Nat /\ InQueue(queue') + InRuns(run') <= InQueue(queue) + InRuns(run)
    <3>1. CASE queue' = queue /\ Cardinality(Below(t)) <= Cardinality(Below(run[w]))
      BY <1>a, <2>1, <2>2, <3>1
    <3>2. ASSUME NEW k \in Levels, queue' = [queue EXCEPT ![k] = @ + 1],
                 Cardinality(Below(run[w])) = Cardinality(Below(t)) + Tree(k)
          PROVE  /\ InQueue(queue') \in Nat
                 /\ InQueue(queue') + InRuns(run') <= InQueue(queue) + InRuns(run)
      <4>1. InQueue(queue') \in Nat /\ InQueue(queue') = InQueue(queue) + Tree(k) /\ Tree(k) \in Nat
        BY <1>0, <3>2, QueueMore, Trees
      <4> QED BY <1>a, <2>1, <2>2, <3>2, <4>1
    <3> QED BY <1>4, <3>1, <3>2
  <2>4. runs # 0
    BY <1>4 DEF RunsInv
  <2>5. PICK n \in Nat : n = (1 + crashes) * Tree(0)
    BY <1>0
  <2>6. runs + InQueue(queue') + InRuns(run') <= n
    BY <1>0, <1>a, <2>1, <2>3, <2>5 DEF RunsInv
  <2> QED BY <1>4, <2>4, <2>5, <2>6 DEF RunsInv
<1>5. ASSUME NEW w \in Workers, Render(w) PROVE RunsInv'
  <2> DEFINE t == run[w]
  <2>1. /\ t \in Runs /\ t.pc = "render" /\ w \in Running /\ UNCHANGED <<runs, crashes>>
        /\ t.retries \in Levels
    BY <1>0, <1>5 DEF Render, Running, Runs
  <2>2. PICK u \in Runs :
          /\ run' = [run EXCEPT ![w] = u]
          /\ u.pc = "render" /\ u.next = t.next + 1 /\ u.retries = t.retries
          /\ \/ queue' = queue
             \/ t.next \in Faulty /\ t.retries < MaxRetries /\ queue' = Requeued(w)
    <3>1. PICK a, b : /\ a = [t EXCEPT !.next = t.next + 1, !.rendered = t.rendered + 1]
                      /\ b = [t EXCEPT !.next = t.next + 1]
      OBVIOUS
    <3>2. /\ a \in Runs /\ a.pc = "render" /\ a.next = t.next + 1 /\ a.retries = t.retries
          /\ b \in Runs /\ b.pc = "render" /\ b.next = t.next + 1 /\ b.retries = t.retries
      <4>1. t.next + 1 \in Nat /\ t.rendered + 1 \in Nat
        BY <2>1 DEF Runs
      <4> QED BY <2>1, <3>1, <4>1 DEF Runs
    <3>3. CASE /\ run' = [run EXCEPT ![w].next = @ + 1, ![w].rendered = @ + 1]
               /\ UNCHANGED queue
      <4>1. run' = [run EXCEPT ![w] = a]
        BY <1>0, <2>1, <3>1, <3>3 DEF Runs
      <4> QED BY <3>2, <3>3, <4>1
    <3>4. CASE /\ t.next \in Faulty /\ run' = [run EXCEPT ![w].next = @ + 1]
               /\ queue' = IF MayRetry(w) THEN Requeued(w) ELSE queue
      <4>1. run' = [run EXCEPT ![w] = b]
        BY <1>0, <2>1, <3>1, <3>4 DEF Runs
      <4>2. queue' = queue \/ (t.retries < MaxRetries /\ queue' = Requeued(w))
        BY <3>4 DEF MayRetry
      <4> QED BY <3>2, <3>4, <4>1, <4>2
    <3> QED BY <1>5, <3>3, <3>4 DEF Render
  <2>3. CASE queue' = queue
    BY <1>4, <2>1, <2>2, <2>3, BelowNext
  <2>4. CASE t.next \in Faulty /\ t.retries < MaxRetries /\ queue' = Requeued(w)
    <3>1. t.retries + 1 \in Levels
      BY <2>1, <2>4, JobsAssumption DEF Levels
    <3>2. queue' = [queue EXCEPT ![t.retries + 1] = @ + 1]
      BY <2>4 DEF Requeued
    <3>3. Cardinality(Below(t)) = Cardinality(Below(u)) + Tree(t.retries + 1)
      BY <2>1, <2>2, <2>4, BelowNext
    <3> HIDE DEF t
    <3> QED BY <1>4, <2>1, <2>2, <3>1, <3>2, <3>3 DEF t
  <2> QED BY <2>2, <2>3, <2>4
<1>6. ASSUME NEW w \in Workers, Pack(w) \/ Upload(w) \/ Report(w) PROVE RunsInv'
  <2>1. w \in Running /\ UNCHANGED <<queue, runs, crashes>>
    BY <1>6 DEF Pack, Upload, Report, Running
  <2>2. PICK t \in Runs : run' = [run EXCEPT ![w] = t] /\ t.pc # "render"
    <3>1. PICK a, b : a = [run[w] EXCEPT !.pc = "upload"] /\ b = [run[w] EXCEPT !.pc = "report"]
      OBVIOUS
    <3>2. a \in Runs /\ a.pc # "render" /\ b \in Runs /\ b.pc # "render" /\ Resting.pc # "render"
      BY <1>0, <3>1 DEF Runs, Resting
    <3>3. \/ run' = [run EXCEPT ![w] = Resting] \/ run' = [run EXCEPT ![w] = a]
          \/ run' = [run EXCEPT ![w] = b]
      BY <1>0, <1>6, <3>1 DEF Pack, Upload, Report, Ended, Runs
    <3> QED BY <1>0, <3>2, <3>3
  <2>3. Cardinality(Below(t)) = 0
    BY <2>2, BelowFinite
  <2>4. Cardinality(Below(t)) <= Cardinality(Below(run[w]))
    BY <1>b, <2>3
  <2> QED BY <1>4, <2>1, <2>2, <2>4
<1>7. ASSUME NEW w \in Workers, Crash(w) PROVE RunsInv'
  <2>1. /\ w \in Running /\ run' = [run EXCEPT ![w] = Resting] /\ crashes' = crashes + 1
        /\ runs' = runs /\ runs # 0 /\ run[w].retries \in Levels
        /\ queue' = queue \/ queue' = [queue EXCEPT ![run[w].retries] = @ + 1]
    BY <1>0, <1>7 DEF Crash, Ended, RunsInv, Runs
  <2>2. InRuns(run') \in Nat /\ InRuns(run') <= InRuns(run)
    <3>1. Cardinality(Below(Resting)) = 0
      BY <1>0, BelowFinite DEF Resting
    <3>2. /\ InRuns(run') \in Nat
          /\ InRuns(run') + Cardinality(Below(run[w])) = InRuns(run) + Cardinality(Below(Resting))
      BY <1>0, <2>1, <1>c
    <3> QED BY <1>b, <3>1, <3>2
  <2>3. InQueue(queue') \in Nat /\ InQueue(queue') <= InQueue(queue) + Tree(0)
    <3>1. CASE queue' = queue
      BY <1>0, <1>a, <3>1
    <3>2. CASE queue' = [queue EXCEPT ![run[w].retries] = @ + 1]
      <4>1. PICK k \in Levels : k = run[w].retries
        BY <2>1
      <4>2. InQueue(queue') \in Nat /\ InQueue(queue') = InQueue(queue) + Tree(k)
        BY <1>0, <3>2, <4>1, QueueMore
      <4>3. Tree(k) \in Nat /\ Tree(k) <= Tree(0)
        BY Trees
      <4> QED BY <1>0, <1>a, <4>2, <4>3
    <3> QED BY <2>1, <3>1, <3>2
  <2>4. PICK n, m \in Nat : n = (1 + crashes) * Tree(0) /\ m = (1 + (crashes + 1)) * Tree(0)
    BY <1>0
  <2>5. m = n + Tree(0)
    BY <1>0, <2>4
  <2>6. runs + InQueue(queue) + InRuns(run) <= n
    BY <2>4 DEF RunsInv
  <2>7. runs + InQueue(queue') + InRuns(run') <= m
    BY <1>0, <1>a, <1>b, <2>2, <2>3, <2>5, <2>6
  <2>8. runs' + InQueue(queue') + InRuns(run') <= (1 + crashes') * Tree(0)
    BY <2>1, <2>4, <2>7
  <2> QED BY <2>1, <2>8 DEF RunsInv
<1> QED BY <1>1, <1>2, <1>3, <1>5, <1>6, <1>7 DEF Next

(* However often failing students queue the task again and lost workers    *)
(* have it delivered again, the runs are no more than the nodes of one     *)
(* tree of retries for each delivery (generate_bulk_dossiers_task).        *)
THEOREM RunsBounded == Spec => []RunsAreBounded
<1>1. TypeOK /\ RunsInv => RunsAreBounded
  <2> SUFFICES ASSUME TypeOK, RunsInv PROVE RunsAreBounded
    OBVIOUS
  <2>1. Tree(0) = Cardinality(Retried)
    <3>1. Paths(MaxRetries - 0) = Retried
      BY JobsAssumption DEF Paths, Retried, Levels
    <3> QED BY <3>1 DEF Tree
  <2>2. runs + InQueue(queue) + InRuns(run) <= (1 + crashes) * Tree(0)
    BY DEF RunsInv
  <2>3. /\ runs \in Nat /\ crashes \in Nat /\ 0 \in Levels
        /\ queue \in [Levels -> Nat] /\ run \in [Workers -> Runs]
    BY JobsAssumption DEF TypeOK, Levels
  <2>4. InQueue(queue) \in Nat /\ Tree(0) \in Nat
    BY <2>3, QueueMore, Trees
  <2>5. InRuns(run) \in Nat
    <3>1. CASE Workers = {}
      <4>1. Tagged(Workers, Under(run)) = {}
        BY <3>1 DEF Tagged
      <4> QED BY <4>1, FS_EmptySet DEF InRuns
    <3>2. CASE Workers # {}
      <4>1. PICK w \in Workers : TRUE
        BY <3>2
      <4> QED BY <2>3, <4>1, RunChange
    <3> QED BY <3>1, <3>2
  <2>6. PICK n \in Nat : n = (1 + crashes) * Tree(0)
    BY <2>3, <2>4
  <2>7. runs <= n
    BY <2>2, <2>3, <2>4, <2>5, <2>6
  <2> QED BY <2>1, <2>6, <2>7 DEF RunsAreBounded
<1>2. Spec => []TypeOK
  BY JobTypeCorrect
<1> QED BY <1>1, <1>2, RunsInitially, RunsStep, PTL DEF Spec

-----------------------------------------------------------------------------
(* The competitions: requests that load an edition, read which others are  *)
(* current and write in one flush.                                         *)

LEMMA LeastNatural ==
  ASSUME NEW S \in SUBSET Nat, S # {}
  PROVE  \E m \in S : \A n \in S : m <= n
<1> DEFINE R == OpToRel(<, Nat)
<1>1. IsWellFoundedOn(R, Nat)
  BY NatLessThanWellFounded
<1>2. \A a, b \in Nat : a < b => <<a, b>> \in R
  BY DEF OpToRel
<1> HIDE DEF R
<1>3. PICK m \in S : \A n \in S : ~(<<n, m>> \in R)
  BY <1>1, WFMin
<1>4. \A n \in S : ~(n < m)
  BY <1>2, <1>3
<1> QED BY <1>4

(* What a request about a competition may hold.                            *)
CompRequest ==
  [kind: {"none", "create", "update", "set", "add", "drop", "delete"},
   comp: Comps \cup {Absent}, patch: C!Patches, items: SUBSET Items,
   loaded: C!CompetitionRow \cup {Absent}, others: SUBSET Comps]

(* A request in flight has loaded a competition the sequence has given out,*)
(* unless it creates one; only one that promotes has read the others.      *)
CompHeld(r) ==
  LET q == cReq[r] IN
  /\ r \notin C!InFlight => q = C!NoReq
  /\ r \in C!InFlight =>
       IF q.kind = "create"
       THEN q.comp = Absent /\ q.patch.gallery = {} /\ q.patch.current # {}
       ELSE /\ q.kind # "none" /\ (q.kind = "update" \/ q.patch = C!NoPatch)
            /\ q.comp \in Comps \ unborn /\ q.loaded \in C!CompetitionRow
  /\ cPc[r] = "read" => C!Promotes(q)
  /\ ~C!Promotes(q) => q.others = {}
  /\ q.comp \notin q.others

CompBase ==
  /\ C!TypeOK /\ cReq \in [Requests -> CompRequest]
  /\ \A r \in Requests : CompHeld(r)

(* What the first statement of a request has put into it.                  *)
CompOpened(q) ==
  /\ q \in CompRequest /\ q.others = {}
  /\ IF q.kind = "create"
     THEN q.comp = Absent /\ q.patch.gallery = {} /\ q.patch.current # {}
     ELSE /\ q.kind # "none" /\ (q.kind = "update" \/ q.patch = C!NoPatch)
          /\ q.comp \in C!OnRecord /\ q.loaded = comps[q.comp]

LEMMA CompOpens ==
  ASSUME C!CompetitionsAssumption, C!TypeOK, NEW r \in Requests,
         \/ C!CreateBegin(r) \/ C!UpdateBegin(r) \/ C!SetCurrentBegin(r)
         \/ C!AddItemBegin(r) \/ C!DropItemBegin(r) \/ C!DeleteBegin(r)
  PROVE  \E q : CompOpened(q) /\ C!Begin(r, q)
<1> USE DEF CompOpened
<1>1. C!NoReq \in CompRequest /\ C!NoReq.others = {} /\ C!NoReq.patch = C!NoPatch
  BY DEF C!NoReq, C!NoPatch, CompRequest, C!Patches
<1>2. CASE C!CreateBegin(r)
  <2>1. PICK b \in BOOLEAN :
          C!Begin(r, [C!NoReq EXCEPT !.kind = "create", !.patch.current = {b}])
    BY <1>2 DEF C!CreateBegin
  <2>2. PICK q : q = [C!NoReq EXCEPT !.kind = "create", !.patch.current = {b}]
    OBVIOUS
  <2>3. /\ q \in CompRequest /\ q.others = {} /\ q.kind = "create"
        /\ q.comp = Absent /\ q.patch.gallery = {} /\ q.patch.current # {}
    BY <2>2 DEF C!NoReq, C!NoPatch, CompRequest, C!Patches
  <2> QED BY <2>1, <2>2, <2>3
<1>3. ASSUME NEW q, C!Open(r, q), q \in CompRequest, q.others = {},
             q.kind \notin {"none", "create"}, q.kind = "update" \/ q.patch = C!NoPatch
      PROVE  \E p : CompOpened(p) /\ C!Begin(r, p)
  <2>1. PICK c \in C!OnRecord : C!Begin(r, [q EXCEPT !.comp = c, !.loaded = comps[c]])
    BY <1>3 DEF C!Open
  <2>2. c \in Comps /\ comps[c] \in C!CompetitionRow
    BY DEF C!OnRecord, C!TypeOK
  <2>3. PICK p : p = [q EXCEPT !.comp = c, !.loaded = comps[c]]
    OBVIOUS
  <2>4. /\ p \in CompRequest /\ p.kind = q.kind /\ p.others = q.others /\ p.patch = q.patch
        /\ p.comp = c /\ p.loaded = comps[c]
    BY <1>3, <2>2, <2>3 DEF CompRequest
  <2> QED BY <1>3, <2>1, <2>3, <2>4
<1>4. CASE C!UpdateBegin(r)
  <2>1. PICK p \in C!Patches : C!Open(r, [C!NoReq EXCEPT !.kind = "update", !.patch = p])
    BY <1>4 DEF C!UpdateBegin
  <2>2. PICK q : q = [C!NoReq EXCEPT !.kind = "update", !.patch = p]
    OBVIOUS
  <2>3. q \in CompRequest /\ q.others = {} /\ q.kind = "update"
    BY <2>2 DEF C!NoReq, CompRequest
  <2> QED BY <1>3, <2>1, <2>2, <2>3
<1>5. CASE C!SetCurrentBegin(r)
  <2>1. PICK q : q = [C!NoReq EXCEPT !.kind = "set"]
    OBVIOUS
  <2>2. q \in CompRequest /\ q.others = {} /\ q.kind = "set" /\ q.patch = C!NoPatch
    BY <1>1, <2>1 DEF C!NoReq, CompRequest
  <2> QED BY <1>3, <1>5, <2>1, <2>2 DEF C!SetCurrentBegin
<1>6. CASE C!DeleteBegin(r)
  <2>1. PICK q : q = [C!NoReq EXCEPT !.kind = "delete"]
    OBVIOUS
  <2>2. q \in CompRequest /\ q.others = {} /\ q.kind = "delete" /\ q.patch = C!NoPatch
    BY <1>1, <2>1 DEF C!NoReq, CompRequest
  <2> QED BY <1>3, <1>6, <2>1, <2>2 DEF C!DeleteBegin
<1>7. CASE C!AddItemBegin(r)
  <2>1. PICK i \in Items : C!Open(r, [C!NoReq EXCEPT !.kind = "add", !.items = {i}])
    BY <1>7 DEF C!AddItemBegin
  <2>2. PICK q : q = [C!NoReq EXCEPT !.kind = "add", !.items = {i}]
    OBVIOUS
  <2>3. q \in CompRequest /\ q.others = {} /\ q.kind = "add" /\ q.patch = C!NoPatch
    BY <1>1, <2>2 DEF C!NoReq, CompRequest
  <2> QED BY <1>3, <2>1, <2>2, <2>3
<1>8. CASE C!DropItemBegin(r)
  <2>1. PICK i \in Items : C!Open(r, [C!NoReq EXCEPT !.kind = "drop", !.items = {i}])
    BY <1>8 DEF C!DropItemBegin
  <2>2. PICK q : q = [C!NoReq EXCEPT !.kind = "drop", !.items = {i}]
    OBVIOUS
  <2>3. q \in CompRequest /\ q.others = {} /\ q.kind = "drop" /\ q.patch = C!NoPatch
    BY <1>1, <2>2 DEF C!NoReq, CompRequest
  <2> QED BY <1>3, <2>1, <2>2, <2>3
<1> QED BY <1>2, <1>4, <1>5, <1>6, <1>7, <1>8

LEMMA CompPatched ==
  ASSUME NEW value, NEW patch
  PROVE  /\ patch = {} => C!Patched(value, patch) = value
         /\ \A x : patch = {x} => C!Patched(value, patch) = x
BY DEF C!Patched

LEMMA CompUpdated ==
  ASSUME NEW now \in C!CompetitionRow, NEW loaded \in C!CompetitionRow,
         NEW after \in C!CompetitionRow
  PROVE  LET row == C!Updated(now, loaded, after) IN
         /\ row \in C!CompetitionRow
         /\ row.current = IF after.current = loaded.current THEN now.current ELSE after.current
         /\ row.gallery = IF after.gallery = loaded.gallery THEN now.gallery ELSE after.gallery
<1>1. DOMAIN now = {"current", "status", "gallery"}
  BY DEF C!CompetitionRow
<1>2. /\ C!Updated(now, loaded, after) =
           [current |-> IF after.current = loaded.current THEN now.current ELSE after.current,
            status  |-> IF after.status = loaded.status THEN now.status ELSE after.status,
            gallery |-> IF after.gallery = loaded.gallery THEN now.gallery ELSE after.gallery]
  BY <1>1 DEF C!Updated
<1> QED BY <1>2 DEF C!CompetitionRow

(* The object after the handler: what it promotes, clears and keeps.       *)
LEMMA CompAfter ==
  ASSUME NEW q \in CompRequest, q.kind \in {"update", "set", "add", "drop"},
         q.kind = "update" \/ q.patch = C!NoPatch, q.loaded \in C!CompetitionRow
  PROVE  /\ C!After(q) \in C!CompetitionRow
         /\ C!Promotes(q) => C!After(q).current = TRUE
         /\ ~C!Promotes(q) => C!After(q).current = q.loaded.current \/ C!After(q).current = FALSE
         /\ ~C!NamesCurrent(q) => C!After(q).current = q.loaded.current
         /\ C!After(q).gallery =
              CASE q.kind = "add"  -> q.loaded.gallery \cup q.items
                [] q.kind = "drop" -> q.loaded.gallery \ q.items
                [] OTHER -> C!Patched(q.loaded.gallery, q.patch.gallery)
<1>1. PICK was \in BOOLEAN, status \in C!Statuses, gallery \in SUBSET Items :
        q.loaded = [current |-> was, status |-> status, gallery |-> gallery]
  BY DEF C!CompetitionRow
<1>2. /\ q.patch.current = {} \/ q.patch.current = {TRUE} \/ q.patch.current = {FALSE}
      /\ q.patch.status = {} \/ q.patch.status = {"CONCLUDED"}
      /\ q.patch.gallery = {} \/ q.patch.gallery = {{}}
  BY DEF CompRequest, C!Patches
<1>3. q.items \subseteq Items
  BY DEF CompRequest
<1>4. CASE q.kind = "update"
  <2>1. PICK c, s, g : /\ c = C!Patched(was, q.patch.current)
                       /\ s = C!Patched(status, q.patch.status)
                       /\ g = C!Patched(gallery, q.patch.gallery)
    OBVIOUS
  <2>2. C!After(q) = [current |-> c, status |-> s, gallery |-> g]
    BY <1>1, <1>4, <2>1 DEF C!After
  <2>3. /\ q.patch.current = {} => c = was
        /\ q.patch.current = {TRUE} => c = TRUE
        /\ q.patch.current = {FALSE} => c = FALSE
    BY <2>1, CompPatched, Zenon
  <2>4. s \in C!Statuses
    BY <1>2, <2>1, CompPatched DEF C!Statuses
  <2>5. g \in SUBSET Items
    BY <1>2, <2>1, CompPatched
  <2>6. c \in BOOLEAN
    BY <1>2, <2>3
  <2>7. /\ C!Promotes(q) <=> q.patch.current = {TRUE}
        /\ C!NamesCurrent(q) <=> q.patch.current # {}
    BY <1>2, <1>4 DEF C!Promotes, C!NamesCurrent
  <2>8. /\ C!Promotes(q) => c = TRUE
        /\ ~C!Promotes(q) => c = was \/ c = FALSE
        /\ ~C!NamesCurrent(q) => c = was
    BY <1>2, <2>3, <2>7, Zenon
  <2> QED BY <1>1, <1>4, <2>1, <2>2, <2>4, <2>5, <2>6, <2>8 DEF C!CompetitionRow
<1>5. ASSUME q.patch = C!NoPatch
      PROVE  /\ C!Patched(gallery, q.patch.gallery) = gallery
             /\ q.kind # "set" => ~C!Promotes(q)
  BY <1>5, CompPatched DEF C!NoPatch, C!Promotes
<1>6. CASE q.kind = "set"
  <2>1. PICK a : a = [q.loaded EXCEPT !.current = TRUE,
                        !.status = IF @ = "DRAFT" THEN "ACTIVE" ELSE @]
    OBVIOUS
  <2>2. C!After(q) = a
    BY <1>6, <2>1 DEF C!After
  <2>3. a \in C!CompetitionRow
    BY <2>1 DEF C!CompetitionRow, C!Statuses
  <2>4. a.current = TRUE /\ a.gallery = q.loaded.gallery
    BY <2>1 DEF C!CompetitionRow
  <2> QED BY <1>1, <1>5, <1>6, <2>2, <2>3, <2>4 DEF C!Promotes, C!NamesCurrent
<1>7. CASE q.kind = "add"
  <2>1. C!After(q) = [current |-> was, status |-> status, gallery |-> gallery \cup q.items]
    BY <1>1, <1>7 DEF C!After
  <2> QED BY <1>1, <1>3, <1>5, <1>7, <2>1 DEF C!CompetitionRow
<1>8. CASE q.kind = "drop"
  <2>1. C!After(q) = [current |-> was, status |-> status, gallery |-> gallery \ q.items]
    BY <1>1, <1>8 DEF C!After
  <2> QED BY <1>1, <1>3, <1>5, <1>8, <2>1 DEF C!CompetitionRow
<1> QED BY <1>4, <1>6, <1>7, <1>8

LEMMA CompCleared ==
  ASSUME C!CompetitionsAssumption, CompBase, NEW r \in Requests
  PROVE  /\ C!Cleared(r) \in [Comps -> C!CompetitionRow \cup {Absent}]
         /\ \A c \in Comps :
              /\ C!Cleared(r)[c] = Absent <=> comps[c] = Absent
              /\ c \in C!OnRecord =>
                   /\ C!Cleared(r)[c].gallery = comps[c].gallery
                   /\ c \in cReq[r].others => C!Cleared(r)[c].current = FALSE
                   /\ c \notin cReq[r].others => C!Cleared(r)[c] = comps[c]
<1> SUFFICES ASSUME NEW c \in Comps
             PROVE  /\ C!Cleared(r)[c] \in C!CompetitionRow \cup {Absent}
                    /\ C!Cleared(r)[c] = Absent <=> comps[c] = Absent
                    /\ c \in C!OnRecord =>
                         /\ C!Cleared(r)[c].gallery = comps[c].gallery
                         /\ c \in cReq[r].others => C!Cleared(r)[c].current = FALSE
                         /\ c \notin cReq[r].others => C!Cleared(r)[c] = comps[c]
  BY DEF C!Cleared
<1>1. comps[c] \in C!CompetitionRow \cup {Absent} /\ Absent \notin C!CompetitionRow
  BY DEF CompBase, C!TypeOK, C!CompetitionsAssumption
<1>2. CASE c \in cReq[r].others \cap C!OnRecord
  <2>1. C!Cleared(r)[c] = [comps[c] EXCEPT !.current = FALSE]
    BY <1>2 DEF C!Cleared
  <2>2. comps[c] \in C!CompetitionRow
    BY <1>1, <1>2 DEF C!OnRecord
  <2>3. PICK row : row = [comps[c] EXCEPT !.current = FALSE]
    OBVIOUS
  <2>4. /\ row \in C!CompetitionRow /\ row.gallery = comps[c].gallery
        /\ row.current = FALSE
    BY <2>2, <2>3 DEF C!CompetitionRow
  <2> QED BY <1>1, <1>2, <2>1, <2>2, <2>3, <2>4
<1>3. CASE c \notin cReq[r].others \cap C!OnRecord
  <2>1. C!Cleared(r)[c] = comps[c]
    BY <1>3 DEF C!Cleared
  <2> QED BY <1>1, <1>3, <2>1
<1> QED BY <1>2, <1>3

(* What a commit does to the competitions and to their galleries.          *)
CompGain(q) ==
  \/ C!Currents' \subseteq C!Currents
  \/ /\ C!Promotes(q)
     /\ \E d \in unborn \cup {q.comp} :
          /\ d \in unborn => q.comp = Absent
          /\ C!Currents' \subseteq (C!Currents \ q.others) \cup {d}
CompGalleryKept(q, c) ==
  \/ c \in unborn /\ comps'[c].gallery = {} /\ wanted'[c] = wanted[c]
  \/ c \in C!OnRecord /\ comps'[c].gallery = comps[c].gallery /\ wanted'[c] = wanted[c]
  \/ /\ c \in C!OnRecord /\ c = q.comp /\ C!EditsGallery(q)
     /\ (comps[c].gallery = q.loaded.gallery /\ comps[c].gallery = wanted[c]
            => comps'[c].gallery = wanted'[c])
CompCommitted(q) ==
  /\ comps' \in [Comps -> C!CompetitionRow \cup {Absent}]
  /\ wanted' \in [Comps -> SUBSET Items]
  /\ unborn' \subseteq unborn
  /\ \A c \in unborn' : comps'[c] = Absent /\ wanted'[c] = wanted[c]
  /\ C!OnRecord' \subseteq C!OnRecord \cup unborn
  /\ CompGain(q)
  /\ ~C!NamesCurrent(q) =>
       \A c \in C!OnRecord' : c \in C!OnRecord /\ comps'[c].current = comps[c].current
  /\ \A c \in C!OnRecord' : CompGalleryKept(q, c)

LEMMA CompNothing ==
  ASSUME CompBase, NEW q, UNCHANGED <<comps, unborn, wanted>>
  PROVE  CompCommitted(q)
<1>1. C!OnRecord' = C!OnRecord /\ C!Currents' = C!Currents
  BY DEF C!OnRecord, C!Currents
<1> QED BY <1>1 DEF CompCommitted, CompGain, CompGalleryKept, CompBase, C!TypeOK

LEMMA CompCreates ==
  ASSUME C!CompetitionsAssumption, CompBase, NEW r \in Requests, r \in C!InFlight,
         NEW new \in unborn, cReq[r].kind = "create",
         comps' = [C!Cleared(r) EXCEPT ![new] = C!NewRow(TRUE \in cReq[r].patch.current)],
         unborn' = unborn \ {new}, UNCHANGED wanted
  PROVE  CompCommitted(cReq[r])
<1> DEFINE q == cReq[r]
           row == C!NewRow(TRUE \in q.patch.current)
<1>1. q.comp = Absent /\ q.patch.current # {}
  BY DEF CompBase, CompHeld
<1>2. row \in C!CompetitionRow /\ row.gallery = {}
  BY DEF C!NewRow, C!CompetitionRow, C!Statuses
<1>3. row.current <=> C!Promotes(q)
  BY DEF C!NewRow, C!Promotes
<1>4. Absent \notin C!CompetitionRow /\ Absent \notin Comps
  BY DEF C!CompetitionsAssumption
<1>5. new \in Comps /\ unborn \subseteq Comps /\ \A c \in unborn : comps[c] = Absent
  BY DEF CompBase, C!TypeOK
<1> HIDE DEF row
<1>6. comps' \in [Comps -> C!CompetitionRow \cup {Absent}]
  BY <1>2, CompCleared DEF row
<1>7. comps'[new] = row /\ \A c \in Comps \ {new} : comps'[c] = C!Cleared(r)[c]
  BY <1>5, CompCleared DEF row
<1>8. \A c \in unborn' : comps'[c] = Absent /\ wanted'[c] = wanted[c]
  BY <1>5, <1>7, CompCleared
<1>9. C!OnRecord' \subseteq C!OnRecord \cup {new}
  BY <1>7, CompCleared DEF C!OnRecord
<1>10. \A c \in C!Currents' \ {new} : c \in C!Currents \ q.others
  BY <1>7, <1>9, CompCleared DEF C!OnRecord, C!Currents
<1>11. new \in C!Currents' => C!Promotes(q)
  BY <1>3, <1>7 DEF C!Currents
<1>12. CompGain(q)
  BY <1>1, <1>10, <1>11 DEF CompGain
<1>13. \A c \in C!OnRecord' : CompGalleryKept(q, c)
  BY <1>2, <1>7, <1>9, CompCleared DEF CompGalleryKept, C!OnRecord
<1>14. C!NamesCurrent(q)
  BY <1>1 DEF C!NamesCurrent
<1>15. wanted' \in [Comps -> SUBSET Items]
  BY DEF CompBase, C!TypeOK
<1> HIDE DEF q
<1>16. CompCommitted(q)
  BY <1>6, <1>8, <1>9, <1>12, <1>13, <1>14, <1>15 DEF CompCommitted
<1> QED BY <1>16 DEF q

LEMMA CompDeletes ==
  ASSUME C!CompetitionsAssumption, CompBase, NEW r \in Requests, r \in C!InFlight,
         cReq[r].kind = "delete", comps' = [comps EXCEPT ![cReq[r].comp] = Absent],
         UNCHANGED <<unborn, wanted>>
  PROVE  CompCommitted(cReq[r])
<1>1. cReq[r].comp \in Comps
  BY DEF CompBase, CompHeld
<1>2. /\ comps' \in [Comps -> C!CompetitionRow \cup {Absent}]
      /\ comps'[cReq[r].comp] = Absent
      /\ \A c \in Comps \ {cReq[r].comp} : comps'[c] = comps[c]
  BY <1>1 DEF CompBase, C!TypeOK
<1>3. C!OnRecord' = C!OnRecord \ {cReq[r].comp}
  BY <1>2 DEF C!OnRecord
<1>4. C!Currents' \subseteq C!Currents
  BY <1>2, <1>3 DEF C!Currents, C!OnRecord
<1>5. \A c \in C!OnRecord' : c \in C!OnRecord /\ comps'[c] = comps[c]
  BY <1>2, <1>3 DEF C!OnRecord
<1>6. \A c \in unborn' : comps'[c] = Absent /\ wanted'[c] = wanted[c]
  BY <1>2 DEF CompBase, C!TypeOK
<1> QED BY <1>2, <1>3, <1>4, <1>5, <1>6
        DEF CompCommitted, CompGain, CompGalleryKept, CompBase, C!TypeOK

LEMMA CompWrites ==
  ASSUME C!CompetitionsAssumption, CompBase, NEW r \in Requests, r \in C!InFlight,
         NEW q, q = cReq[r], q.kind \notin {"create", "delete"}, q.comp \in C!OnRecord,
         comps' = [C!Cleared(r) EXCEPT ![q.comp] = C!Updated(@, q.loaded, C!After(q))],
         wanted' = [wanted EXCEPT ![q.comp] =
             CASE q.kind = "add"  -> @ \cup q.items
               [] q.kind = "drop" -> @ \ q.items
               [] OTHER -> C!Patched(@, q.patch.gallery)],
         UNCHANGED unborn
  PROVE  CompCommitted(q)
<1>1. /\ q \in CompRequest /\ q.kind \in {"update", "set", "add", "drop"}
      /\ q.kind = "update" \/ q.patch = C!NoPatch
      /\ q.comp \in Comps \ unborn /\ q.loaded \in C!CompetitionRow
      /\ q.comp \notin q.others /\ (~C!Promotes(q) => q.others = {})
  BY DEF CompBase, CompHeld, CompRequest
<1>0. PICK cleared \in [Comps -> C!CompetitionRow \cup {Absent}] :
              /\ cleared = C!Cleared(r)
              /\ \A c \in Comps :
                   /\ cleared[c] = Absent <=> comps[c] = Absent
                   /\ c \in C!OnRecord =>
                        /\ cleared[c].gallery = comps[c].gallery
                        /\ c \in q.others => cleared[c].current = FALSE
                        /\ c \notin q.others => cleared[c] = comps[c]
  BY CompCleared
<1>2. PICK after : after = C!After(q)
  OBVIOUS
<1>3. /\ after \in C!CompetitionRow
      /\ C!Promotes(q) => after.current = TRUE
      /\ ~C!Promotes(q) => after.current = q.loaded.current \/ after.current = FALSE
      /\ ~C!NamesCurrent(q) => after.current = q.loaded.current
      /\ after.gallery =
           CASE q.kind = "add"  -> q.loaded.gallery \cup q.items
             [] q.kind = "drop" -> q.loaded.gallery \ q.items
             [] OTHER -> C!Patched(q.loaded.gallery, q.patch.gallery)
  BY <1>1, <1>2, CompAfter
<1>4. PICK d \in Comps : d = q.comp
  BY <1>1
<1>5. cleared[d] = comps[d] /\ comps[d] \in C!CompetitionRow
  BY <1>1, <1>4, <1>0 DEF C!OnRecord, CompBase, C!TypeOK
<1>6. PICK row : row = C!Updated(comps[d], q.loaded, after)
  OBVIOUS
<1>7. /\ row \in C!CompetitionRow
      /\ row.current = IF after.current = q.loaded.current THEN comps[d].current ELSE after.current
      /\ row.gallery = IF after.gallery = q.loaded.gallery THEN comps[d].gallery ELSE after.gallery
  BY <1>1, <1>3, <1>5, <1>6, CompUpdated
<1>8. comps' = [cleared EXCEPT ![d] = row]
  BY <1>2, <1>4, <1>5, <1>6, <1>0
<1>9. /\ comps' \in [Comps -> C!CompetitionRow \cup {Absent}]
      /\ comps'[d] = row
      /\ \A c \in Comps \ {d} : comps'[c] = cleared[c]
  BY <1>7, <1>8, <1>0
<1>10. Absent \notin C!CompetitionRow
  BY DEF C!CompetitionsAssumption
<1>11. C!OnRecord' = C!OnRecord
  BY <1>4, <1>7, <1>9, <1>10, <1>0 DEF C!OnRecord
<1>12. \A c \in C!Currents' \ {d} : c \in C!Currents \ q.others
  BY <1>9, <1>11, <1>0 DEF C!OnRecord, C!Currents
<1>13. ~C!Promotes(q) /\ d \in C!Currents' => d \in C!Currents
  <2> SUFFICES ASSUME ~C!Promotes(q), row.current PROVE comps[d].current
    BY <1>9, <1>11, <1>4 DEF C!Currents
  <2>1. row.current \in BOOLEAN /\ after.current \in BOOLEAN /\ q.loaded.current \in BOOLEAN
    BY <1>1, <1>3, <1>7 DEF C!CompetitionRow
  <2> QED BY <1>3, <1>7, <2>1
<1>14. CompGain(q)
  <2>1. CASE C!Promotes(q)
    BY <1>4, <1>12, <2>1, <1>1 DEF CompGain
  <2>2. CASE ~C!Promotes(q)
    BY <1>12, <1>13, <2>2 DEF CompGain
  <2> QED BY <2>1, <2>2
<1>15. ~C!NamesCurrent(q) =>
         \A c \in C!OnRecord' : c \in C!OnRecord /\ comps'[c].current = comps[c].current
  <2> SUFFICES ASSUME ~C!NamesCurrent(q), NEW c \in C!OnRecord'
               PROVE  comps'[c].current = comps[c].current
    BY <1>11
  <2>1. q.others = {}
    BY <1>1 DEF C!NamesCurrent, C!Promotes
  <2>2. CASE c = d
    BY <1>3, <1>7, <1>9, <2>2
  <2>3. CASE c # d
    <3>1. c \in Comps \ {d} /\ c \in C!OnRecord
      BY <1>11, <2>3 DEF C!OnRecord
    <3> QED BY <1>9, <2>1, <3>1, <1>0
  <2> QED BY <2>2, <2>3
<1>16. PICK asked : asked =
             CASE q.kind = "add"  -> wanted[d] \cup q.items
               [] q.kind = "drop" -> wanted[d] \ q.items
               [] OTHER -> C!Patched(wanted[d], q.patch.gallery)
  OBVIOUS
<1>17. wanted' = [wanted EXCEPT ![d] = asked]
  BY <1>4, <1>16
<1>18. wanted \in [Comps -> SUBSET Items] /\ q.items \subseteq Items
  BY <1>1 DEF CompBase, C!TypeOK, CompRequest
<1>19. /\ q.patch.gallery = {} \/ q.patch.gallery = {{}}
       /\ q.kind # "update" => q.patch.gallery = {}
  <2>1. q.patch \in C!Patches
    BY <1>1 DEF CompRequest
  <2>2. q.patch.gallery \in {{}, {{}}}
    BY <2>1 DEF C!Patches
  <2> QED BY <1>1, <2>2 DEF C!NoPatch
<1>20. asked \in SUBSET Items
  <2>1. wanted[d] \in SUBSET Items
    BY <1>18
  <2>2. C!Patched(wanted[d], q.patch.gallery) \in SUBSET Items
    BY <1>19, <2>1, CompPatched
  <2> QED BY <1>16, <1>18, <2>1, <2>2
<1>21. wanted' \in [Comps -> SUBSET Items]
  BY <1>17, <1>18, <1>20
<1>22. wanted'[d] = asked /\ \A c \in Comps \ {d} : wanted'[c] = wanted[c]
  BY <1>17, <1>18
<1>23. ASSUME NEW c \in C!OnRecord' PROVE CompGalleryKept(q, c)
  <2>1. CASE c # d
    <3>1. c \in Comps \ {d} /\ c \in C!OnRecord
      BY <1>11, <2>1 DEF C!OnRecord
    <3>2. comps'[c].gallery = comps[c].gallery
      BY <1>9, <3>1, <1>0
    <3> QED BY <1>22, <3>1, <3>2 DEF CompGalleryKept
  <2>2. CASE c = d /\ C!EditsGallery(q)
    <3>1. ASSUME comps[d].gallery = q.loaded.gallery, comps[d].gallery = wanted[d]
          PROVE  row.gallery = asked
      <4>1. after.gallery = asked
        BY <1>3, <1>16, <3>1
      <4> QED BY <1>7, <3>1, <4>1
    <3> QED BY <1>4, <1>9, <1>11, <1>22, <2>2, <3>1 DEF CompGalleryKept
  <2>3. CASE c = d /\ ~C!EditsGallery(q)
    <3>1. q.kind \notin {"add", "drop"} /\ q.patch.gallery = {}
      BY <2>3 DEF C!EditsGallery
    <3>2. after.gallery = q.loaded.gallery /\ asked = wanted[d]
      BY <1>3, <1>16, <3>1, CompPatched
    <3> QED BY <1>4, <1>7, <1>9, <1>11, <1>22, <2>3, <3>2 DEF CompGalleryKept
  <2> QED BY <2>1, <2>2, <2>3
<1>24. \A c \in unborn' : comps'[c] = Absent /\ wanted'[c] = wanted[c]
  <2> SUFFICES ASSUME NEW c \in unborn PROVE comps'[c] = Absent /\ wanted'[c] = wanted[c]
    OBVIOUS
  <2>1. c \in Comps \ {d} /\ comps[c] = Absent
    BY <1>1, <1>4 DEF CompBase, C!TypeOK
  <2> QED BY <1>9, <1>22, <2>1, <1>0
<1> QED BY <1>9, <1>11, <1>14, <1>15, <1>21, <1>23, <1>24 DEF CompCommitted

(* Whatever a commit is of, it does what CompCommitted says.               *)
LEMMA CompCommits ==
  ASSUME C!CompetitionsAssumption, CompBase, NEW r \in Requests, C!Commit(r)
  PROVE  /\ r \in C!InFlight /\ cPc[r] = "write"
         /\ CompCommitted(cReq[r])
         /\ \E end \in {"done", "failed"} : cPc' = [cPc EXCEPT ![r] = end]
         /\ cReq' = [cReq EXCEPT ![r] = C!NoReq]
         /\ UNCHANGED <<met, cCrossed>>
<1>1. r \in C!InFlight /\ cPc[r] = "write"
  BY DEF C!Commit, C!InFlight
<1>2. CompCommitted(cReq[r]) /\ \E end \in {"done", "failed"} : cPc' = [cPc EXCEPT ![r] = end]
  <2> DEFINE q == cReq[r]
             new == CHOOSE c \in unborn : \A o \in unborn : c <= o
  <2>1. CASE /\ q.kind = "create" /\ unborn # {}
             /\ comps' = [C!Cleared(r) EXCEPT ![new] = C!NewRow(TRUE \in q.patch.current)]
             /\ unborn' = unborn \ {new}
             /\ cPc' = [cPc EXCEPT ![r] = "done"]
             /\ UNCHANGED wanted
    <3>1. unborn \in SUBSET Nat
      BY DEF CompBase, C!TypeOK, C!CompetitionsAssumption
    <3>2. new \in unborn
      BY <2>1, <3>1, LeastNatural
    <3> HIDE DEF new
    <3> QED BY <1>1, <2>1, <3>2, CompCreates
  <2>2. CASE /\ q.kind = "delete"
             /\ comps' = [comps EXCEPT ![q.comp] = Absent]
             /\ cPc' = [cPc EXCEPT ![r] = "done"]
             /\ UNCHANGED <<unborn, wanted>>
    BY <1>1, <2>2, CompDeletes
  <2>3. CASE /\ q.kind \notin {"create", "delete"} /\ q.comp \in C!OnRecord
             /\ comps' = [C!Cleared(r) EXCEPT ![q.comp] = C!Updated(@, q.loaded, C!After(q))]
             /\ wanted' = [wanted EXCEPT ![q.comp] =
                  CASE q.kind = "add"  -> @ \cup q.items
                    [] q.kind = "drop" -> @ \ q.items
                    [] OTHER -> C!Patched(@, q.patch.gallery)]
             /\ cPc' = [cPc EXCEPT ![r] = "done"]
             /\ UNCHANGED unborn
    BY <1>1, <2>3, CompWrites
  <2>4. CASE /\ q.kind \notin {"create", "delete"} /\ q.comp \notin C!OnRecord
             /\ cPc' = [cPc EXCEPT ![r] = "failed"]
             /\ UNCHANGED <<comps, unborn, wanted>>
    BY <1>1, <2>4, CompNothing
  <2> QED BY <2>1, <2>2, <2>3, <2>4 DEF C!Commit
<1> QED BY <1>1, <1>2 DEF C!Commit

(* The four kinds of steps.                                                *)
LEMMA CompSteps ==
  ASSUME C!CompetitionsAssumption, CompBase, C!Next
  PROVE  \E r \in Requests :
           \/ \E q : CompOpened(q) /\ C!Begin(r, q)
           \/ C!ReadCurrent(r) \/ C!Commit(r) \/ C!Fail(r)
<1>1. PICK r \in Requests :
        \/ C!CreateBegin(r) \/ C!UpdateBegin(r) \/ C!SetCurrentBegin(r)
        \/ C!AddItemBegin(r) \/ C!DropItemBegin(r) \/ C!DeleteBegin(r)
        \/ C!ReadCurrent(r) \/ C!Commit(r) \/ C!Fail(r)
  BY DEF C!Next
<1>2. C!TypeOK
  BY DEF CompBase
<1> QED BY <1>1, <1>2, CompOpens

LEMMA CompBaseInit == C!CompetitionsAssumption /\ C!Init => CompBase
<1> SUFFICES ASSUME C!CompetitionsAssumption, C!Init PROVE CompBase
  OBVIOUS
<1>1. comps \in [Comps -> C!CompetitionRow \cup {Absent}]
  BY DEF C!Init, C!CompetitionsAssumption
<1>2. unborn \subseteq Comps /\ \A c \in unborn : comps[c] = Absent
  BY DEF C!Init
<1>3. wanted \in [Comps -> SUBSET Items]
  BY <1>1 DEF C!Init, C!CompetitionRow
<1>4. C!TypeOK
  BY <1>1, <1>2, <1>3 DEF C!Init, C!TypeOK
<1>5. C!NoReq \in CompRequest /\ ~C!Promotes(C!NoReq) /\ C!NoReq.others = {}
  BY DEF C!NoReq, C!NoPatch, CompRequest, C!Patches, C!Promotes
<1>6. \A r \in Requests : cPc[r] = "idle" /\ cReq[r] = C!NoReq /\ r \notin C!InFlight
  BY DEF C!Init, C!InFlight
<1>7. cReq \in [Requests -> CompRequest]
  BY <1>5 DEF C!Init
<1>8. \A r \in Requests : CompHeld(r)
  BY <1>5, <1>6 DEF CompHeld
<1> QED BY <1>4, <1>7, <1>8 DEF CompBase

LEMMA CompBaseStep ==
  ASSUME C!CompetitionsAssumption, CompBase, [C!Next]_C!vars
  PROVE  CompBase'
<1>1. C!TypeOK /\ cReq \in [Requests -> CompRequest] /\ \A r \in Requests : CompHeld(r)
  BY DEF CompBase
<1>2. C!NoReq \in CompRequest /\ ~C!Promotes(C!NoReq) /\ C!NoReq.others = {}
  BY DEF C!NoReq, C!NoPatch, CompRequest, C!Patches, C!Promotes
<1>3. ASSUME NEW r \in Requests, NEW q, CompOpened(q), C!Begin(r, q) PROVE CompBase'
  <2>1. /\ cPc[r] = "idle" /\ cReq' = [cReq EXCEPT ![r] = q]
        /\ cPc' = [cPc EXCEPT ![r] = IF C!Promotes(q) THEN "read" ELSE "write"]
        /\ UNCHANGED <<comps, unborn, wanted>>
    BY <1>3 DEF C!Begin
  <2>2. q \in CompRequest
    BY <1>3 DEF CompOpened
  <2>3. met' \subseteq Requests
    BY <1>1, <1>3 DEF C!Begin, C!TypeOK, C!InFlight
  <2>4. C!EditsGallery(q) => q.comp \in Comps
    BY <1>3 DEF CompOpened, C!EditsGallery, C!OnRecord
  <2>5. cCrossed' \subseteq Comps
    BY <1>1, <1>3, <2>4 DEF C!Begin, C!TypeOK
  <2>6. cPc' \in [Requests -> {"idle", "read", "write", "done", "failed"}]
    BY <1>1, <2>1 DEF C!TypeOK
  <2>7. C!TypeOK'
    BY <1>1, <2>1, <2>3, <2>5, <2>6 DEF C!TypeOK
  <2>8. cReq' \in [Requests -> CompRequest]
    BY <1>1, <2>1, <2>2
  <2>9. ASSUME NEW o \in Requests PROVE CompHeld(o)'
    <3>1. CASE o # r
      <4>1. cReq'[o] = cReq[o] /\ cPc'[o] = cPc[o]
        BY <1>1, <2>1, <3>1 DEF C!TypeOK
      <4>2. o \in C!InFlight' <=> o \in C!InFlight
        BY <4>1 DEF C!InFlight
      <4> QED BY <1>1, <2>1, <4>1, <4>2 DEF CompHeld
    <3>2. CASE o = r
      <4>1. cReq'[r] = q /\ cPc'[r] = IF C!Promotes(q) THEN "read" ELSE "write"
        BY <1>1, <2>1 DEF C!TypeOK
      <4>2. r \in C!InFlight'
        BY <4>1 DEF C!InFlight
      <4>3. q.kind # "create" => q.comp \in Comps \ unborn /\ q.loaded \in C!CompetitionRow
        BY <1>1, <1>3 DEF CompOpened, C!OnRecord, C!TypeOK
      <4>4. q.others = {}
        BY <1>3 DEF CompOpened
      <4> QED BY <1>3, <2>1, <3>2, <4>1, <4>2, <4>3, <4>4 DEF CompHeld, CompOpened
    <3> QED BY <3>1, <3>2
  <2> QED BY <2>7, <2>8, <2>9 DEF CompBase
<1>4. ASSUME NEW r \in Requests, C!ReadCurrent(r) PROVE CompBase'
  <2>1. /\ cPc[r] = "read" /\ cReq' = [cReq EXCEPT ![r].others = C!Currents \ {cReq[r].comp}]
        /\ cPc' = [cPc EXCEPT ![r] = "write"]
        /\ UNCHANGED <<comps, unborn, met, cCrossed, wanted>>
    BY <1>4 DEF C!ReadCurrent
  <2>2. PICK q : q = [cReq[r] EXCEPT !.others = C!Currents \ {cReq[r].comp}]
    OBVIOUS
  <2>3. /\ q \in CompRequest /\ q.others = C!Currents \ {q.comp}
        /\ q.kind = cReq[r].kind /\ q.comp = cReq[r].comp /\ q.patch = cReq[r].patch
        /\ q.loaded = cReq[r].loaded
    BY <1>1, <2>2 DEF CompRequest, C!Currents, C!OnRecord
  <2>4. cReq' = [cReq EXCEPT ![r] = q]
    BY <1>1, <2>1, <2>2
  <2>5. cReq' \in [Requests -> CompRequest]
    BY <1>1, <2>3, <2>4
  <2>6. C!TypeOK'
    BY <1>1, <2>1 DEF C!TypeOK
  <2>7. ASSUME NEW o \in Requests PROVE CompHeld(o)'
    <3>1. CASE o # r
      <4>1. cReq'[o] = cReq[o] /\ cPc'[o] = cPc[o]
        BY <1>1, <2>1, <3>1 DEF C!TypeOK
      <4>2. o \in C!InFlight' <=> o \in C!InFlight
        BY <4>1 DEF C!InFlight
      <4> QED BY <1>1, <2>1, <4>1, <4>2 DEF CompHeld
    <3>2. CASE o = r
      <4>1. cReq'[r] = q /\ cPc'[r] = "write" /\ r \in C!InFlight
        BY <1>1, <2>1, <2>4 DEF C!TypeOK, C!InFlight
      <4>2. r \in C!InFlight'
        BY <4>1 DEF C!InFlight
      <4>3. C!Promotes(q)
        BY <1>1, <2>1, <2>3 DEF CompHeld, C!Promotes
      <4> QED BY <1>1, <2>1, <2>3, <3>2, <4>1, <4>2, <4>3 DEF CompHeld
    <3> QED BY <3>1, <3>2
  <2> QED BY <2>5, <2>6, <2>7 DEF CompBase
<1>5. ASSUME NEW r \in Requests, NEW end \in {"done", "failed"},
             r \in C!InFlight, CompCommitted(cReq[r]), cPc' = [cPc EXCEPT ![r] = end],
             cReq' = [cReq EXCEPT ![r] = C!NoReq], UNCHANGED <<met, cCrossed>>
      PROVE  CompBase'
  <2>1. cReq' \in [Requests -> CompRequest]
    BY <1>1, <1>2, <1>5
  <2>2. C!TypeOK'
    BY <1>1, <1>5 DEF C!TypeOK, CompCommitted
  <2>3. ASSUME NEW o \in Requests PROVE CompHeld(o)'
    <3>1. CASE o # r
      <4>1. cReq'[o] = cReq[o] /\ cPc'[o] = cPc[o]
        BY <1>1, <1>5, <3>1 DEF C!TypeOK
      <4>2. o \in C!InFlight' <=> o \in C!InFlight
        BY <4>1 DEF C!InFlight
      <4>3. unborn' \subseteq unborn
        BY <1>5 DEF CompCommitted
      <4> QED BY <1>1, <4>1, <4>2, <4>3 DEF CompHeld
    <3>2. CASE o = r
      <4>1. cReq'[r] = C!NoReq /\ cPc'[r] = end
        BY <1>1, <1>5 DEF C!TypeOK
      <4>2. r \notin C!InFlight'
        BY <1>5, <4>1 DEF C!InFlight
      <4> QED BY <1>2, <1>5, <3>2, <4>1, <4>2 DEF CompHeld
    <3> QED BY <3>1, <3>2
  <2> QED BY <2>1, <2>2, <2>3 DEF CompBase
<1>6. ASSUME NEW r \in Requests, C!Commit(r) PROVE CompBase'
  BY <1>5, <1>6, CompCommits
<1>7. ASSUME NEW r \in Requests, C!Fail(r) PROVE CompBase'
  <2>1. CompCommitted(cReq[r])
    BY <1>7, CompNothing DEF C!Fail
  <2> QED BY <1>5, <1>7, <2>1 DEF C!Fail
<1>8. CASE UNCHANGED C!vars
  BY <1>1, <1>8 DEF CompBase, C!vars, C!TypeOK, CompHeld, C!InFlight
<1> QED BY <1>3, <1>4, <1>6, <1>7, <1>8, CompSteps

(* A request that opens, and one that is answered or dies: the others stay *)
(* as they are.                                                            *)
CompOpening(r, q) == CompOpened(q) /\ C!Begin(r, q)
CompEnding(r) ==
  /\ r \in C!InFlight /\ CompCommitted(cReq[r])
  /\ cPc[r] = "write" \/ C!Currents' \subseteq C!Currents
  /\ \E end \in {"done", "failed"} : cPc' = [cPc EXCEPT ![r] = end]
  /\ cReq' = [cReq EXCEPT ![r] = C!NoReq]
  /\ UNCHANGED <<met, cCrossed>>

LEMMA CompOpeningFrame ==
  ASSUME CompBase, NEW r \in Requests, NEW q, CompOpening(r, q)
  PROVE  /\ r \notin C!InFlight /\ C!InFlight' = C!InFlight \cup {r}
         /\ cReq'[r] = q /\ cPc'[r] = IF C!Promotes(q) THEN "read" ELSE "write"
         /\ \A o \in Requests \ {r} : cReq'[o] = cReq[o] /\ cPc'[o] = cPc[o]
         /\ met \subseteq met' /\ cCrossed \subseteq cCrossed'
         /\ C!OnRecord' = C!OnRecord /\ C!Currents' = C!Currents
         /\ UNCHANGED <<comps, unborn, wanted>>
<1>1. /\ cPc[r] = "idle" /\ cReq' = [cReq EXCEPT ![r] = q]
      /\ cPc' = [cPc EXCEPT ![r] = IF C!Promotes(q) THEN "read" ELSE "write"]
      /\ UNCHANGED <<comps, unborn, wanted>>
      /\ met \subseteq met' /\ cCrossed \subseteq cCrossed'
  BY DEF CompOpening, C!Begin
<1>2. /\ cReq'[r] = q /\ cPc'[r] = IF C!Promotes(q) THEN "read" ELSE "write"
      /\ \A o \in Requests \ {r} : cReq'[o] = cReq[o] /\ cPc'[o] = cPc[o]
  BY <1>1 DEF CompBase, C!TypeOK
<1>3. r \notin C!InFlight /\ C!InFlight' = C!InFlight \cup {r}
  BY <1>1, <1>2 DEF C!InFlight
<1>4. C!OnRecord' = C!OnRecord /\ C!Currents' = C!Currents
  BY <1>1 DEF C!OnRecord, C!Currents
<1> QED BY <1>1, <1>2, <1>3, <1>4

LEMMA CompReadingFrame ==
  ASSUME CompBase, NEW r \in Requests, C!ReadCurrent(r)
  PROVE  /\ r \in C!InFlight /\ C!InFlight' = C!InFlight
         /\ cPc[r] = "read" /\ cPc'[r] = "write"
         /\ cReq'[r] = [cReq[r] EXCEPT !.others = C!Currents \ {cReq[r].comp}]
         /\ cReq'[r].others = C!Currents \ {cReq[r].comp}
         /\ cReq'[r].kind = cReq[r].kind /\ cReq'[r].comp = cReq[r].comp
         /\ cReq'[r].patch = cReq[r].patch /\ cReq'[r].loaded = cReq[r].loaded
         /\ \A o \in Requests \ {r} : cReq'[o] = cReq[o] /\ cPc'[o] = cPc[o]
         /\ C!OnRecord' = C!OnRecord /\ C!Currents' = C!Currents
         /\ UNCHANGED <<comps, unborn, met, cCrossed, wanted>>
<1>1. /\ cPc[r] = "read" /\ cReq' = [cReq EXCEPT ![r].others = C!Currents \ {cReq[r].comp}]
      /\ cPc' = [cPc EXCEPT ![r] = "write"]
      /\ UNCHANGED <<comps, unborn, met, cCrossed, wanted>>
  BY DEF C!ReadCurrent
<1>2. cReq \in [Requests -> CompRequest] /\ cReq[r] \in CompRequest
  BY DEF CompBase
<1>3. /\ cReq'[r] = [cReq[r] EXCEPT !.others = C!Currents \ {cReq[r].comp}] /\ cPc'[r] = "write"
      /\ \A o \in Requests \ {r} : cReq'[o] = cReq[o] /\ cPc'[o] = cPc[o]
  BY <1>1, <1>2 DEF CompBase, C!TypeOK
<1>4. /\ cReq'[r].others = C!Currents \ {cReq[r].comp}
      /\ cReq'[r].kind = cReq[r].kind /\ cReq'[r].comp = cReq[r].comp
      /\ cReq'[r].patch = cReq[r].patch /\ cReq'[r].loaded = cReq[r].loaded
  BY <1>2, <1>3 DEF CompRequest
<1>5. r \in C!InFlight /\ C!InFlight' = C!InFlight
  BY <1>1, <1>3 DEF C!InFlight
<1>6. C!OnRecord' = C!OnRecord /\ C!Currents' = C!Currents
  BY <1>1 DEF C!OnRecord, C!Currents
<1> QED BY <1>1, <1>3, <1>4, <1>5, <1>6

LEMMA CompEndingFrame ==
  ASSUME CompBase, NEW r \in Requests, CompEnding(r)
  PROVE  /\ C!InFlight' = C!InFlight \ {r} /\ cPc'[r] \in {"done", "failed"}
         /\ \A o \in Requests \ {r} : cReq'[o] = cReq[o] /\ cPc'[o] = cPc[o]
<1>1. PICK end \in {"done", "failed"} :
        cPc' = [cPc EXCEPT ![r] = end] /\ cReq' = [cReq EXCEPT ![r] = C!NoReq]
  BY DEF CompEnding
<1>2. /\ cPc'[r] = end
      /\ \A o \in Requests \ {r} : cReq'[o] = cReq[o] /\ cPc'[o] = cPc[o]
  BY <1>1 DEF CompBase, C!TypeOK
<1>3. C!InFlight' = C!InFlight \ {r}
  BY <1>1, <1>2 DEF C!InFlight
<1> QED BY <1>1, <1>2, <1>3

LEMMA CompKinds ==
  ASSUME C!CompetitionsAssumption, CompBase, [C!Next]_C!vars
  PROVE  \/ \E r \in Requests : \E q : CompOpening(r, q)
         \/ \E r \in Requests : C!ReadCurrent(r)
         \/ \E r \in Requests : CompEnding(r)
         \/ UNCHANGED C!vars
<1>1. ASSUME NEW r \in Requests, C!Commit(r) PROVE CompEnding(r)
  BY <1>1, CompCommits DEF CompEnding
<1>2. ASSUME NEW r \in Requests, C!Fail(r) PROVE CompEnding(r)
  <2>1. CompCommitted(cReq[r])
    BY <1>2, CompNothing DEF C!Fail
  <2>2. C!Currents' = C!Currents
    BY <1>2 DEF C!Fail, C!Currents, C!OnRecord
  <2> QED BY <1>2, <2>1, <2>2 DEF C!Fail, CompEnding
<1>3. CASE C!Next
  BY <1>1, <1>2, <1>3, CompSteps DEF CompOpening
<1> QED BY <1>3

(* The requests in flight that say which competition is current.  One that *)
(* met no other has seen every competition that is current, and what it    *)
(* has loaded still holds.                                                 *)
Deciders == {r \in C!InFlight : C!NamesCurrent(cReq[r])}
CompAlone == \A r \in Deciders \ met : Deciders = {r}
CompInformed ==
  \A r \in Deciders \ met :
    /\ cPc[r] = "write" /\ C!Promotes(cReq[r]) =>
         C!Currents \subseteq cReq[r].others \cup {cReq[r].comp}
    /\ cReq[r].comp \in C!OnRecord =>
         comps[cReq[r].comp].current = cReq[r].loaded.current
CompOne == met = {} => \A c, d \in C!Currents : c = d
CompQuiet == CompAlone /\ CompInformed /\ CompOne

LEMMA CompQuietInit == C!CompetitionsAssumption /\ C!Init => CompQuiet
<1> SUFFICES ASSUME C!CompetitionsAssumption, C!Init PROVE CompQuiet
  OBVIOUS
<1>1. Deciders = {}
  BY DEF C!Init, C!InFlight, Deciders
<1>2. \A c \in C!Currents : c \in DOMAIN PriorComps /\ PriorComps[c].current
  BY DEF C!Init, C!Currents, C!OnRecord
<1>3. CompOne
  BY <1>2 DEF CompOne, C!CompetitionsAssumption
<1> QED BY <1>1, <1>3 DEF CompQuiet, CompAlone, CompInformed

LEMMA CompQuietStep ==
  ASSUME C!CompetitionsAssumption, CompBase, CompQuiet, [C!Next]_C!vars
  PROVE  CompQuiet'
<1> USE DEF CompQuiet
<1>1. ASSUME NEW r \in Requests, NEW q, CompOpening(r, q) PROVE CompQuiet'
  <2>1. /\ r \notin C!InFlight /\ C!InFlight' = C!InFlight \cup {r}
        /\ cReq'[r] = q /\ cPc'[r] = IF C!Promotes(q) THEN "read" ELSE "write"
        /\ \A o \in Requests \ {r} : cReq'[o] = cReq[o] /\ cPc'[o] = cPc[o]
        /\ met \subseteq met' /\ UNCHANGED comps
        /\ C!OnRecord' = C!OnRecord /\ C!Currents' = C!Currents
    BY <1>1, CompOpeningFrame
  <2>2. \A o \in C!InFlight : o \in Requests \ {r}
    BY <2>1 DEF C!InFlight
  <2>3. Deciders' = IF C!NamesCurrent(q) THEN Deciders \cup {r} ELSE Deciders
    BY <2>1, <2>2 DEF Deciders, C!NamesCurrent
  <2>4. C!NamesCurrent(q) /\ Deciders # {} => Deciders \cup {r} \subseteq met'
    BY <1>1 DEF CompOpening, C!Begin, Deciders
  <2>5. CompAlone'
    BY <2>1, <2>3, <2>4 DEF CompAlone
  <2>6. q.comp \in C!OnRecord => comps[q.comp].current = q.loaded.current
    BY <1>1 DEF CompOpening, CompOpened, C!OnRecord, C!CompetitionsAssumption
  <2>7. CompInformed'
    <3> SUFFICES ASSUME NEW o \in (Deciders \ met)'
                 PROVE  /\ cPc'[o] = "write" /\ C!Promotes(cReq'[o]) =>
                             C!Currents \subseteq cReq'[o].others \cup {cReq'[o].comp}
                        /\ cReq'[o].comp \in C!OnRecord =>
                             comps[cReq'[o].comp].current = cReq'[o].loaded.current
      BY <2>1 DEF CompInformed, C!Promotes
    <3>1. CASE o = r
      BY <2>1, <2>6, <3>1 DEF C!Promotes
    <3>2. CASE o # r
      <4>1. o \in Deciders \ met /\ o \in Requests \ {r}
        BY <2>1, <2>2, <2>3, <3>2 DEF Deciders
      <4> QED BY <2>1, <4>1 DEF CompInformed, C!Promotes
    <3> QED BY <3>1, <3>2
  <2>8. CompOne'
    BY <2>1 DEF CompOne
  <2> QED BY <2>5, <2>7, <2>8
<1>2. ASSUME NEW r \in Requests, C!ReadCurrent(r) PROVE CompQuiet'
  <2>1. /\ r \in C!InFlight /\ C!InFlight' = C!InFlight
        /\ cPc[r] = "read" /\ cPc'[r] = "write"
        /\ cReq'[r].others = C!Currents \ {cReq[r].comp}
        /\ cReq'[r].kind = cReq[r].kind /\ cReq'[r].comp = cReq[r].comp
        /\ cReq'[r].patch = cReq[r].patch /\ cReq'[r].loaded = cReq[r].loaded
        /\ \A o \in Requests \ {r} : cReq'[o] = cReq[o] /\ cPc'[o] = cPc[o]
        /\ C!OnRecord' = C!OnRecord /\ C!Currents' = C!Currents
        /\ UNCHANGED <<comps, met>>
    BY <1>2, CompReadingFrame
  <2>2. \A o \in Requests : C!NamesCurrent(cReq[o])' <=> C!NamesCurrent(cReq[o])
    BY <2>1 DEF C!NamesCurrent
  <2>3. Deciders' = Deciders
    BY <2>1, <2>2 DEF Deciders, C!InFlight
  <2>4. CompAlone' /\ CompOne'
    BY <2>1, <2>3 DEF CompAlone, CompOne
  <2>5. CompInformed'
    <3> SUFFICES ASSUME NEW o \in Deciders \ met
                 PROVE  /\ cPc'[o] = "write" /\ C!Promotes(cReq'[o]) =>
                             C!Currents \subseteq cReq'[o].others \cup {cReq'[o].comp}
                        /\ cReq'[o].comp \in C!OnRecord =>
                             comps[cReq'[o].comp].current = cReq'[o].loaded.current
      BY <2>1, <2>3 DEF CompInformed, C!Promotes
    <3>1. o \in Requests
      BY DEF Deciders, C!InFlight
    <3>2. CASE o = r
      BY <2>1, <3>2 DEF CompInformed
    <3>3. CASE o # r
      BY <2>1, <3>1, <3>3 DEF CompInformed, C!Promotes
    <3> QED BY <3>2, <3>3
  <2> QED BY <2>4, <2>5
<1>3. ASSUME NEW r \in Requests, CompEnding(r) PROVE CompQuiet'
  <2>1. /\ C!InFlight' = C!InFlight \ {r}
        /\ \A o \in Requests \ {r} : cReq'[o] = cReq[o] /\ cPc'[o] = cPc[o]
    BY <1>3, CompEndingFrame
  <2>2. /\ r \in C!InFlight /\ CompCommitted(cReq[r]) /\ UNCHANGED met
        /\ cPc[r] = "write" \/ C!Currents' \subseteq C!Currents
    BY <1>3 DEF CompEnding
  <2>3. Deciders' = Deciders \ {r}
    BY <2>1 DEF Deciders, C!InFlight, C!NamesCurrent
  <2>4. CompAlone'
    BY <2>2, <2>3 DEF CompAlone
  <2>5. CompInformed'
    <3> SUFFICES ASSUME NEW o \in (Deciders \ {r}) \ met
                 PROVE  /\ cPc'[o] = "write" /\ C!Promotes(cReq'[o]) =>
                             C!Currents' \subseteq cReq'[o].others \cup {cReq'[o].comp}
                        /\ cReq'[o].comp \in C!OnRecord' =>
                             comps'[cReq'[o].comp].current = cReq'[o].loaded.current
      BY <2>2, <2>3 DEF CompInformed, C!Promotes
    <3>1. o \in Requests \ {r} /\ cReq'[o] = cReq[o] /\ cPc'[o] = cPc[o]
      BY <2>1 DEF Deciders, C!InFlight
    <3>2. ~C!NamesCurrent(cReq[r])
      BY <2>2 DEF CompAlone, Deciders
    <3>3. ~C!Promotes(cReq[r])
      BY <3>2 DEF C!NamesCurrent, C!Promotes
    <3>4. /\ C!Currents' \subseteq C!Currents
          /\ \A c \in C!OnRecord' : c \in C!OnRecord /\ comps'[c].current = comps[c].current
      BY <2>2, <3>2, <3>3 DEF CompCommitted, CompGain
    <3> QED BY <3>1, <3>4 DEF CompInformed
  <2>6. CompOne'
    <3> SUFFICES ASSUME met = {}, ~(C!Currents' \subseteq C!Currents)
                 PROVE  \A c, d \in C!Currents' : c = d
      BY <2>2 DEF CompOne
    <3>1. PICK d \in unborn \cup {cReq[r].comp} :
            /\ C!Promotes(cReq[r])
            /\ d \in unborn => cReq[r].comp = Absent
            /\ C!Currents' \subseteq (C!Currents \ cReq[r].others) \cup {d}
      BY <2>2 DEF CompCommitted, CompGain
    <3>2. r \in Deciders \ met
      BY <2>2, <3>1 DEF Deciders, C!NamesCurrent, C!Promotes
    <3>3. C!Currents \subseteq cReq[r].others \cup {cReq[r].comp}
      BY <2>2, <3>1, <3>2 DEF CompInformed
    <3>4. Absent \notin C!Currents
      BY DEF C!CompetitionsAssumption, C!Currents, C!OnRecord
    <3> QED BY <3>1, <3>3, <3>4
  <2> QED BY <2>4, <2>5, <2>6
<1>4. CASE UNCHANGED C!vars
  BY <1>4 DEF C!vars, CompAlone, CompInformed, CompOne, Deciders, C!InFlight, C!NamesCurrent,
              C!Promotes, C!Currents, C!OnRecord
<1> QED BY <1>1, <1>2, <1>3, <1>4, CompKinds

LEMMA CompSettles ==
  ASSUME C!CompetitionsAssumption, CompBase, CompQuiet, [C!Next]_C!vars,
         NEW r \in Requests \ met,
         cReq[r].kind = "set", cPc[r] = "write", cPc'[r] = "done"
  PROVE  C!Currents' = {cReq[r].comp}
<1>1. r \in C!InFlight
  BY DEF C!InFlight
<1>2. C!Commit(r)
  <2>1. ~UNCHANGED C!vars
    BY DEF C!vars
  <2>2. PICK o \in Requests :
          \/ \E q : CompOpened(q) /\ C!Begin(o, q)
          \/ C!ReadCurrent(o) \/ C!Commit(o) \/ C!Fail(o)
    BY <2>1, CompSteps
  <2>3. cPc \in [Requests -> {"idle", "read", "write", "done", "failed"}]
    BY DEF CompBase, C!TypeOK
  <2>4. o = r
    BY <2>2, <2>3 DEF C!Begin, C!ReadCurrent, C!Commit, C!Fail
  <2> QED BY <2>2, <2>3, <2>4 DEF C!Begin, C!ReadCurrent, C!Fail
<1>3. PICK q \in CompRequest : q = cReq[r]
  BY DEF CompBase
<1>4. PICK d \in Comps : d = q.comp
  BY <1>1, <1>3 DEF CompBase, CompHeld
<1>5. /\ d \in C!OnRecord
      /\ comps' = [C!Cleared(r) EXCEPT ![d] = C!Updated(@, q.loaded, C!After(q))]
  <2>1. cPc' # [cPc EXCEPT ![r] = "failed"]
    BY DEF CompBase, C!TypeOK
  <2> QED BY <1>2, <1>3, <1>4, <2>1 DEF C!Commit
<1>6. /\ q.kind = "set" /\ C!Promotes(q) /\ C!NamesCurrent(q) /\ q.patch = C!NoPatch
      /\ q.loaded \in C!CompetitionRow /\ d \notin q.others
  BY <1>1, <1>3, <1>4 DEF CompBase, CompHeld, C!Promotes, C!NamesCurrent
<1>7. r \in Deciders \ met
  BY <1>1, <1>3, <1>6 DEF Deciders
<1>8. C!Currents \subseteq q.others \cup {d} /\ comps[d].current = q.loaded.current
  BY <1>3, <1>4, <1>5, <1>6, <1>7 DEF CompQuiet, CompInformed
<1>9. /\ C!After(q) \in C!CompetitionRow /\ C!After(q).current = TRUE
  BY <1>6, CompAfter
<1>10. comps[d] \in C!CompetitionRow /\ C!Cleared(r)[d] = comps[d]
  BY <1>3, <1>4, <1>5, <1>6, CompCleared DEF C!OnRecord, CompBase, C!TypeOK
<1>11. PICK row \in C!CompetitionRow :
         /\ row = C!Updated(comps[d], q.loaded, C!After(q))
         /\ row.current = IF C!After(q).current = q.loaded.current THEN comps[d].current
                          ELSE C!After(q).current
  BY <1>6, <1>9, <1>10, CompUpdated
<1>12. row.current = TRUE
  BY <1>8, <1>9, <1>11, Zenon
<1>13. /\ comps'[d] = row /\ \A c \in Comps \ {d} : comps'[c] = C!Cleared(r)[c]
  BY <1>5, <1>10, <1>11, CompCleared
<1>14. d \in C!Currents'
  BY <1>12, <1>13 DEF C!Currents, C!OnRecord, C!CompetitionsAssumption
<1>15. ASSUME NEW c \in C!Currents', c # d PROVE FALSE
  <2>1. c \in Comps \ {d} /\ C!Cleared(r)[c] # Absent /\ C!Cleared(r)[c].current
    BY <1>13, <1>15 DEF C!Currents, C!OnRecord
  <2>2. c \in C!OnRecord
    BY <2>1, CompCleared DEF C!OnRecord
  <2>3. c \notin q.others /\ c \in C!Currents
    BY <1>3, <2>1, <2>2, CompCleared DEF C!Currents
  <2> QED BY <1>8, <2>3, <1>15
<1> QED BY <1>3, <1>4, <1>14, <1>15

(* The budget of simultaneous promotions.  A promotion is blind to a set of*)
(* competitions when it clears none of them.  A set of current ones and the*)
(* promotions blind to it were all in flight at once, when the first of the*)
(* set became current.                                                     *)
Blind(X) ==
  {r \in Requests : /\ cPc[r] = "write" /\ C!Promotes(cReq[r])
                    /\ X \cap (cReq[r].others \cup {cReq[r].comp}) = {}}
CompBudget ==
  /\ Cardinality(C!InFlight) <= AtOnce
  /\ \A X \in SUBSET C!Currents :
       X # {} => Cardinality(X) + Cardinality(Blind(X)) <= AtOnce

LEMMA CompCounts ==
  /\ \A S : C!Cardinality(S) = Cardinality(S)
  /\ \A S : C!IsFiniteSet(S) <=> IsFiniteSet(S)
BY DEF C!Cardinality, Cardinality, C!IsFiniteSet, IsFiniteSet

LEMMA CompFinite ==
  ASSUME C!CompetitionsAssumption
  PROVE  /\ IsFiniteSet(C!InFlight) /\ Cardinality(C!InFlight) \in Nat
         /\ IsFiniteSet(C!Currents) /\ Cardinality(C!Currents) \in Nat
         /\ \A X \in SUBSET Comps : IsFiniteSet(X) /\ Cardinality(X) \in Nat
         /\ \A X : IsFiniteSet(Blind(X)) /\ Cardinality(Blind(X)) \in Nat
<1>1. IsFiniteSet(Comps) /\ IsFiniteSet(Requests)
  BY CompCounts DEF C!CompetitionsAssumption
<1>2. C!InFlight \in SUBSET Requests /\ C!Currents \in SUBSET Comps
      /\ \A X : Blind(X) \in SUBSET Requests
  BY DEF C!InFlight, C!Currents, C!OnRecord, Blind
<1> QED BY <1>1, <1>2, FS_Subset, FS_CardinalityType

LEMMA CompBudgetInit == C!CompetitionsAssumption /\ C!Init => CompBudget
<1> SUFFICES ASSUME C!CompetitionsAssumption, C!Init PROVE CompBudget
  OBVIOUS
<1>1. C!InFlight = {} /\ \A X : Blind(X) = {}
  BY DEF C!Init, C!InFlight, Blind
<1>2. \A c, d \in C!Currents : c = d
  BY CompQuietInit DEF CompQuiet, CompOne, C!Init
<1>3. Cardinality({}) = 0 /\ AtOnce \in Nat \ {0}
  BY FS_EmptySet DEF C!CompetitionsAssumption
<1>4. ASSUME NEW X \in SUBSET C!Currents, X # {} PROVE Cardinality(X) = 1
  <2>1. PICK c : X = {c}
    BY <1>2, <1>4
  <2> QED BY <2>1, FS_Singleton
<1> QED BY <1>1, <1>3, <1>4 DEF CompBudget

LEMMA CompBudgetStep ==
  ASSUME C!CompetitionsAssumption, CompBase, CompBudget, [C!Next]_C!vars
  PROVE  CompBudget'
<1> USE DEF CompBudget
<1>0. AtOnce \in Nat \ {0} /\ Absent \notin Comps
  BY DEF C!CompetitionsAssumption
<1>1. ASSUME NEW X \in SUBSET C!Currents, X # {}, Blind(X)' \subseteq Blind(X)
      PROVE  Cardinality(X) + Cardinality(Blind(X)') <= AtOnce
  <2>1. Cardinality(Blind(X)') \in Nat /\ Cardinality(Blind(X)') <= Cardinality(Blind(X))
    BY <1>1, CompFinite, FS_Subset, FS_CardinalityType
  <2>2. Cardinality(X) \in Nat /\ Cardinality(Blind(X)) \in Nat
    BY CompFinite DEF C!Currents, C!OnRecord
  <2>3. Cardinality(X) + Cardinality(Blind(X)) <= AtOnce
    BY <1>1
  <2> QED BY <1>0, <2>1, <2>2, <2>3
<1>2. ASSUME NEW r \in Requests, NEW q, CompOpening(r, q) PROVE CompBudget'
  <2>1. /\ r \notin C!InFlight /\ C!InFlight' = C!InFlight \cup {r}
        /\ cReq'[r] = q /\ cPc'[r] = IF C!Promotes(q) THEN "read" ELSE "write"
        /\ \A o \in Requests \ {r} : cReq'[o] = cReq[o] /\ cPc'[o] = cPc[o]
        /\ C!Currents' = C!Currents
    BY <1>2, CompOpeningFrame
  <2>2. Cardinality(C!InFlight) < AtOnce
    BY <1>2, CompCounts DEF CompOpening, C!Begin
  <2>3. Cardinality(C!InFlight') = Cardinality(C!InFlight) + 1
    BY <2>1, CompFinite, FS_AddElement
  <2>4. \A X : Blind(X)' \subseteq Blind(X)
    BY <2>1 DEF Blind, C!Promotes
  <2>5. Cardinality(C!InFlight') <= AtOnce
    BY <1>0, <2>2, <2>3, CompFinite
  <2> QED BY <1>1, <2>1, <2>4, <2>5
<1>3. ASSUME NEW r \in Requests, C!ReadCurrent(r) PROVE CompBudget'
  <2>1. /\ C!InFlight' = C!InFlight
        /\ cReq'[r].others = C!Currents \ {cReq[r].comp} /\ cReq'[r].comp = cReq[r].comp
        /\ \A o \in Requests \ {r} : cReq'[o] = cReq[o] /\ cPc'[o] = cPc[o]
        /\ C!Currents' = C!Currents
    BY <1>3, CompReadingFrame
  <2>2. ASSUME NEW X \in SUBSET C!Currents, X # {} PROVE Blind(X)' \subseteq Blind(X)
    <3>1. X \cap (cReq'[r].others \cup {cReq'[r].comp}) # {}
      BY <2>1, <2>2
    <3> QED BY <2>1, <3>1 DEF Blind, C!Promotes
  <2> QED BY <1>1, <2>1, <2>2
<1>4. ASSUME NEW r \in Requests, CompEnding(r) PROVE CompBudget'
  <2>1. /\ C!InFlight' = C!InFlight \ {r} /\ cPc'[r] \in {"done", "failed"}
        /\ \A o \in Requests \ {r} : cReq'[o] = cReq[o] /\ cPc'[o] = cPc[o]
    BY <1>4, CompEndingFrame
  <2>2. /\ r \in C!InFlight /\ CompCommitted(cReq[r])
        /\ cPc[r] = "write" \/ C!Currents' \subseteq C!Currents
    BY <1>4 DEF CompEnding
  <2>3. Cardinality(C!InFlight') = Cardinality(C!InFlight) - 1
    BY <2>1, <2>2, CompFinite, FS_RemoveElement
  <2>4. Cardinality(C!InFlight') <= AtOnce
    BY <1>0, <2>3, CompFinite
  <2>5. \A X : Blind(X)' \subseteq Blind(X) \ {r}
    BY <2>1 DEF Blind, C!Promotes
  <2>6. ASSUME NEW X \in SUBSET C!Currents', X # {}, ~(X \subseteq C!Currents)
        PROVE  Cardinality(X) + Cardinality(Blind(X)') <= AtOnce
    <3>1. PICK d \in unborn \cup {cReq[r].comp} :
            /\ C!Promotes(cReq[r])
            /\ d \in unborn => cReq[r].comp = Absent
            /\ C!Currents' \subseteq (C!Currents \ cReq[r].others) \cup {d}
      BY <2>2, <2>6 DEF CompCommitted, CompGain
    <3>2. PICK Y : Y = X \ {d}
      OBVIOUS
    <3>3. d \in X /\ X = Y \cup {d} /\ d \notin Y /\ Y \subseteq C!Currents \ cReq[r].others
      BY <2>6, <3>1, <3>2
    <3>4. C!Currents \subseteq Comps
      BY DEF C!Currents, C!OnRecord
    <3>5. /\ Cardinality(X) = Cardinality(Y) + 1
          /\ Cardinality(Y) \in Nat /\ (Y = {} => Cardinality(Y) = 0)
      BY <3>3, <3>4, CompFinite, FS_AddElement, FS_EmptySet
    <3>6. CASE Y = {}
      <4>1. Blind(X)' \subseteq C!InFlight'
        BY DEF Blind, C!InFlight
      <4>2. /\ Cardinality(Blind(X)') \in Nat
            /\ Cardinality(Blind(X)') <= Cardinality(C!InFlight')
        <5>1. IsFiniteSet(C!InFlight')
          BY <2>1, CompFinite, FS_Subset
        <5> QED BY <4>1, <5>1, FS_Subset, FS_CardinalityType
      <4> QED BY <1>0, <2>3, <3>5, <3>6, <4>2, CompFinite
    <3>7. CASE Y # {}
      <4>1. cReq[r].comp \notin Y
        BY <1>0, <3>1, <3>3, <3>4
      <4>2. r \in Blind(Y)
        BY <2>2, <2>6, <3>1, <3>3, <4>1 DEF Blind
      <4>3. Blind(X)' \subseteq Blind(Y) \ {r}
        BY <2>5, <3>3 DEF Blind
      <4>4. Cardinality(Y) + Cardinality(Blind(Y)) <= AtOnce
        BY <3>3, <3>7
      <4>5. /\ IsFiniteSet(Blind(Y) \ {r})
            /\ Cardinality(Blind(Y) \ {r}) = Cardinality(Blind(Y)) - 1
        BY <4>2, CompFinite, FS_RemoveElement
      <4>6. Cardinality(Blind(X)') \in Nat /\ Cardinality(Blind(X)') <= Cardinality(Blind(Y)) - 1
        BY <4>3, <4>5, FS_Subset, FS_CardinalityType
      <4> QED BY <1>0, <3>5, <4>4, <4>6, CompFinite
    <3> QED BY <3>6, <3>7
  <2>7. ASSUME NEW X \in SUBSET C!Currents', X # {}
        PROVE  Cardinality(X) + Cardinality(Blind(X)') <= AtOnce
    BY <1>1, <2>5, <2>6, <2>7
  <2> QED BY <2>4, <2>7
<1>5. CASE UNCHANGED C!vars
  <2>1. /\ C!InFlight' = C!InFlight /\ C!Currents' = C!Currents
        /\ \A X : Blind(X)' = Blind(X)
    BY <1>5 DEF C!vars, C!InFlight, C!Currents, C!OnRecord, Blind, C!Promotes
  <2> QED BY <2>1
<1> QED BY <1>2, <1>3, <1>4, <1>5, CompKinds

(* The gallery of a competition that no two edits raced for is what was    *)
(* asked for, and an edit under way has loaded it as it is.                *)
Editors(c) == {r \in C!InFlight : C!EditsGallery(cReq[r]) /\ cReq[r].comp = c}
CompGallery ==
  /\ C!GalleryKeepsItems
  /\ \A c \in unborn : wanted[c] = {}
  /\ \A c \in Comps \ cCrossed : \A r \in Editors(c) :
       /\ Editors(c) = {r}
       /\ c \in C!OnRecord => comps[c].gallery = cReq[r].loaded.gallery

LEMMA CompGalleryInit == C!CompetitionsAssumption /\ C!Init => CompGallery
BY DEF C!Init, CompGallery, C!GalleryKeepsItems, C!OnRecord, Editors, C!InFlight,
       C!CompetitionsAssumption

LEMMA CompGalleryStep ==
  ASSUME C!CompetitionsAssumption, CompBase, CompGallery, [C!Next]_C!vars
  PROVE  CompGallery'
<1>1. ASSUME NEW r \in Requests, NEW q, CompOpening(r, q) PROVE CompGallery'
  <2>1. /\ r \notin C!InFlight /\ C!InFlight' = C!InFlight \cup {r}
        /\ cReq'[r] = q
        /\ \A o \in Requests \ {r} : cReq'[o] = cReq[o] /\ cPc'[o] = cPc[o]
        /\ cCrossed \subseteq cCrossed' /\ UNCHANGED <<comps, unborn, wanted>>
        /\ C!OnRecord' = C!OnRecord
    BY <1>1, CompOpeningFrame
  <2>2. C!InFlight \subseteq Requests \ {r}
    BY <2>1 DEF C!InFlight
  <2>3. \A c : Editors(c)' = IF C!EditsGallery(q) /\ q.comp = c THEN Editors(c) \cup {r}
                             ELSE Editors(c)
    BY <2>1, <2>2 DEF Editors, C!EditsGallery
  <2>4. C!EditsGallery(q) /\ Editors(q.comp) # {} => q.comp \in cCrossed'
    BY <1>1 DEF CompOpening, C!Begin, Editors
  <2>5. C!EditsGallery(q) => q.comp \in C!OnRecord /\ q.loaded = comps[q.comp]
    BY <1>1 DEF CompOpening, CompOpened, C!EditsGallery
  <2>6. ASSUME NEW c \in Comps \ cCrossed', NEW o \in Editors(c)'
        PROVE  /\ Editors(c)' = {o}
               /\ c \in C!OnRecord => comps[c].gallery = cReq'[o].loaded.gallery
    <3>1. CASE C!EditsGallery(q) /\ q.comp = c
      BY <2>1, <2>3, <2>4, <2>5, <2>6, <3>1
    <3>2. CASE ~(C!EditsGallery(q) /\ q.comp = c)
      <4>1. o \in Editors(c) /\ Editors(c)' = Editors(c) /\ c \in Comps \ cCrossed
        BY <2>1, <2>3, <2>6, <3>2
      <4>2. cReq'[o] = cReq[o]
        BY <2>1, <2>2, <4>1 DEF Editors
      <4> QED BY <4>1, <4>2 DEF CompGallery
    <3> QED BY <3>1, <3>2
  <2>7. C!GalleryKeepsItems' /\ \A c \in unborn' : wanted'[c] = {}
    BY <2>1 DEF CompGallery, C!GalleryKeepsItems
  <2> QED BY <2>1, <2>6, <2>7 DEF CompGallery
<1>2. ASSUME NEW r \in Requests, C!ReadCurrent(r) PROVE CompGallery'
  <2>1. /\ C!InFlight' = C!InFlight
        /\ cReq'[r].kind = cReq[r].kind /\ cReq'[r].comp = cReq[r].comp
        /\ cReq'[r].patch = cReq[r].patch /\ cReq'[r].loaded = cReq[r].loaded
        /\ \A o \in Requests \ {r} : cReq'[o] = cReq[o]
        /\ C!OnRecord' = C!OnRecord
        /\ UNCHANGED <<comps, unborn, cCrossed, wanted>>
    BY <1>2, CompReadingFrame
  <2>2. \A o \in C!InFlight :
          /\ C!EditsGallery(cReq[o])' <=> C!EditsGallery(cReq[o])
          /\ cReq'[o].comp = cReq[o].comp /\ cReq'[o].loaded = cReq[o].loaded
    BY <2>1 DEF C!EditsGallery, C!InFlight
  <2>3. \A c : Editors(c)' = Editors(c)
    BY <2>1, <2>2 DEF Editors
  <2>4. \A c : \A o \in Editors(c) : cReq'[o].loaded = cReq[o].loaded
    BY <2>2 DEF Editors
  <2> QED BY <2>1, <2>3, <2>4 DEF CompGallery, C!GalleryKeepsItems
<1>3. ASSUME NEW r \in Requests, CompEnding(r) PROVE CompGallery'
  <2>1. /\ C!InFlight' = C!InFlight \ {r}
        /\ \A o \in Requests \ {r} : cReq'[o] = cReq[o] /\ cPc'[o] = cPc[o]
    BY <1>3, CompEndingFrame
  <2>2. r \in C!InFlight /\ CompCommitted(cReq[r]) /\ UNCHANGED cCrossed
    BY <1>3 DEF CompEnding
  <2>3. \A c : Editors(c)' = Editors(c) \ {r}
    BY <2>1 DEF Editors, C!InFlight, C!EditsGallery
  <2>4. ASSUME NEW c \in C!OnRecord' \ cCrossed PROVE comps'[c].gallery = wanted'[c]
    <3>1. CompGalleryKept(cReq[r], c)
      BY <2>2 DEF CompCommitted
    <3>2. CASE c \in unborn /\ comps'[c].gallery = {} /\ wanted'[c] = wanted[c]
      BY <3>2 DEF CompGallery
    <3>3. CASE c \in C!OnRecord /\ comps'[c].gallery = comps[c].gallery /\ wanted'[c] = wanted[c]
      BY <3>3 DEF CompGallery, C!GalleryKeepsItems
    <3>4. CASE /\ c \in C!OnRecord /\ c = cReq[r].comp /\ C!EditsGallery(cReq[r])
               /\ (comps[c].gallery = cReq[r].loaded.gallery /\ comps[c].gallery = wanted[c]
                     => comps'[c].gallery = wanted'[c])
      <4>1. r \in Editors(c) /\ c \in Comps \ cCrossed
        BY <2>2, <3>4 DEF Editors, C!OnRecord
      <4> QED BY <3>4, <4>1 DEF CompGallery, C!GalleryKeepsItems
    <3> QED BY <3>1, <3>2, <3>3, <3>4 DEF CompGalleryKept
  <2>5. \A c \in unborn' : wanted'[c] = {}
    BY <2>2 DEF CompCommitted, CompGallery
  <2>6. ASSUME NEW c \in Comps \ cCrossed, NEW o \in Editors(c)'
        PROVE  /\ Editors(c)' = {o}
               /\ c \in C!OnRecord' => comps'[c].gallery = cReq'[o].loaded.gallery
    <3>1. /\ o \in Editors(c) /\ o # r /\ Editors(c) = {o} /\ o \in Requests \ {r}
          /\ c \in C!OnRecord => comps[c].gallery = cReq[o].loaded.gallery
      BY <2>3, <2>6 DEF CompGallery, Editors, C!InFlight
    <3>2. Editors(c)' = {o} /\ cReq'[o] = cReq[o]
      BY <2>1, <2>3, <3>1
    <3>3. ~(c = cReq[r].comp /\ C!EditsGallery(cReq[r]))
      BY <2>2, <3>1 DEF Editors
    <3>4. c \notin unborn
      BY <3>1 DEF CompBase, CompHeld, Editors, C!InFlight, C!EditsGallery, C!CompetitionsAssumption
    <3>5. c \in C!OnRecord' => c \in C!OnRecord /\ comps'[c].gallery = comps[c].gallery
      BY <2>2, <3>3, <3>4 DEF CompCommitted, CompGalleryKept
    <3> QED BY <3>1, <3>2, <3>5
  <2> QED BY <2>2, <2>4, <2>5, <2>6 DEF CompGallery, C!GalleryKeepsItems
<1>4. CASE UNCHANGED C!vars
  BY <1>4 DEF C!vars, CompGallery, C!GalleryKeepsItems, Editors, C!InFlight, C!EditsGallery,
              C!OnRecord
<1> QED BY <1>1, <1>2, <1>3, <1>4, CompKinds

(* The inductive invariant of the competitions.                            *)
CompInv == CompBase /\ CompQuiet /\ CompBudget /\ CompGallery

(* What is invariant of the competitions (routes/competitions.py): what a  *)
(* request holds, who is current, what a request that met another may      *)
(* spoil, and the galleries.                                               *)
THEOREM CompInductive ==
  ASSUME C!CompetitionsAssumption PROVE C!Spec => []CompInv
<1>1. C!Init => CompInv
  BY CompBaseInit, CompQuietInit, CompBudgetInit, CompGalleryInit DEF CompInv
<1>2. CompInv /\ [C!Next]_C!vars => CompInv'
  BY CompBaseStep, CompQuietStep, CompBudgetStep, CompGalleryStep DEF CompInv
<1> QED BY <1>1, <1>2, PTL DEF C!Spec

(* At most one competition is current, and after requests that say so      *)
(* overlapped at most one for each request that may be in flight: create,  *)
(* update and set_current clear the flag of the rows they have read        *)
(* (routes/competitions.py).                                               *)
THEOREM CurrentIsUniqueHolds ==
  ASSUME C!CompetitionsAssumption PROVE C!Spec => []CurrentIsUnique
<1>1. CompInv => CurrentIsUnique
  <2> SUFFICES ASSUME CompInv
               PROVE  Cardinality(C!Currents) <= IF met = {} THEN 1 ELSE AtOnce
    BY CompCounts DEF CurrentIsUnique, C!CurrentIsUnique
  <2>1. AtOnce \in Nat \ {0}
    BY DEF C!CompetitionsAssumption
  <2>2. CASE C!Currents = {}
    BY <2>1, <2>2, FS_EmptySet
  <2>3. CASE C!Currents # {} /\ met = {}
    <3>1. PICK c : C!Currents = {c}
      BY <2>3 DEF CompInv, CompQuiet, CompOne
    <3> QED BY <2>3, <3>1, FS_Singleton
  <2>4. CASE C!Currents # {} /\ met # {}
    <3>1. Cardinality(C!Currents) + Cardinality(Blind(C!Currents)) <= AtOnce
      BY <2>4 DEF CompInv, CompBudget
    <3> QED BY <2>1, <2>4, <3>1, CompFinite
  <2> QED BY <2>2, <2>3, <2>4
<1> QED BY <1>1, CompInductive, PTL

(* A set_current that met no other request about the flag leaves its       *)
(* competition as the only current one, in the step that commits it.       *)
THEOREM SetCurrentSettlesHolds ==
  ASSUME C!CompetitionsAssumption PROVE C!Spec => SetCurrentSettles
<1>1. CompInv /\ [C!Next]_C!vars =>
        [\A r \in Requests \ met :
           cReq[r].kind = "set" /\ cPc[r] = "write" /\ cPc'[r] = "done" =>
             C!Currents' = {cReq[r].comp}]_C!vars
  BY CompSettles DEF CompInv
<1> QED BY <1>1, CompInductive, PTL DEF C!Spec, SetCurrentSettles, C!SetCurrentSettles

(* The gallery of a competition holds what was added and not dropped,      *)
(* unless two edits of the one JSON column overlapped.                     *)
THEOREM GalleryKeepsItemsHolds ==
  ASSUME C!CompetitionsAssumption PROVE C!Spec => []GalleryKeepsItems
<1>1. CompInv => GalleryKeepsItems
  BY DEF CompInv, CompGallery, GalleryKeepsItems
<1> QED BY <1>1, CompInductive, PTL

-----------------------------------------------------------------------------
(* The letters: decisions that are committed and then told, and the regret *)
(* letters, which are told and then committed.                             *)

LetterRequest ==
  [student: Students \cup {Blank}, column: {"review", "category"},
   value: T!Decisions \cup Categories \cup {Blank}, loaded: T!Record \cup {Blank}]
Columned(q) ==
  \/ q.column = "review" /\ q.value \in T!Decisions
  \/ q.column = "category" /\ q.value \in Categories
LetterHeld(r) ==
  LET q == tReq[r] IN
  /\ r \notin T!InFlight => q = T!NoReq
  /\ r \in T!InFlight => q.student \in Students /\ q.loaded \in T!Record
  /\ tPc[r] \in {"decide", "tell"} => Columned(q)
LetterBase ==
  /\ T!TypeOK /\ tReq \in [Mailings -> LetterRequest]
  /\ \A r \in Mailings : LetterHeld(r)
  /\ \A s \in Students, c \in T!Told : receipts[s] # Blank => <<s, c>> \notin late

(* Each request on its own, and what it leaves to the others.              *)
LetterFrame(r) ==
  \A o \in Mailings \ {r} :
    tReq'[o] = tReq[o] /\ tPc'[o] = tPc[o] /\ (o \in T!InFlight' <=> o \in T!InFlight)

LEMMA LetterMoves ==
  ASSUME LetterBase, NEW r \in Mailings, NEW q, NEW step,
         tReq' = [tReq EXCEPT ![r] = q], tPc' = [tPc EXCEPT ![r] = step]
  PROVE  tReq'[r] = q /\ tPc'[r] = step /\ LetterFrame(r)
<1>1. /\ tReq'[r] = q /\ tPc'[r] = step
      /\ \A o \in Mailings \ {r} : tReq'[o] = tReq[o] /\ tPc'[o] = tPc[o]
  BY DEF LetterBase, T!TypeOK
<1>2. \A o \in Mailings \ {r} : o \in T!InFlight' <=> o \in T!InFlight
  BY <1>1 DEF T!InFlight
<1> QED BY <1>1, <1>2 DEF LetterFrame

LEMMA LetterBaseInit == T!LettersAssumption /\ T!Init => LetterBase
<1> SUFFICES ASSUME T!LettersAssumption, T!Init PROVE LetterBase
  OBVIOUS
<1>1. T!NoReq \in LetterRequest
  BY DEF T!NoReq, LetterRequest
<1>2. record \in [Students -> T!Record]
  <2>1. \A s \in Students : record[s] \in T!Record
    BY DEF T!Init, T!Record
  <2> QED BY <2>1 DEF T!Init
<1>3. inbox \in [Students -> [review: T!Decisions \cup {"UNDER REVIEW", Blank},
                              category: Categories \cup {Blank}]]
  BY DEF T!Init
<1>4. T!TypeOK
  BY <1>2, <1>3 DEF T!Init, T!TypeOK, T!LettersAssumption
<1>6. late = {}
  BY DEF T!Init
<1>5. \A r \in Mailings : LetterHeld(r)
  BY DEF T!Init, LetterHeld, T!InFlight
<1> QED BY <1>1, <1>4, <1>5, <1>6 DEF T!Init, LetterBase

LEMMA LetterKeepsHeld ==
  ASSUME LetterBase, NEW r \in Mailings, LetterFrame(r), LetterHeld(r)'
  PROVE  \A o \in Mailings : LetterHeld(o)'
BY DEF LetterBase, LetterHeld, LetterFrame

LEMMA CountedUp ==
  ASSUME NEW f \in [Students -> Nat], NEW s \in Students
  PROVE  [f EXCEPT ![s] = @ + 1] \in [Students -> Nat]
<1>1. f[s] + 1 \in Nat
  OBVIOUS
<1> QED BY <1>1

LEMMA LetterBaseStep ==
  ASSUME T!LettersAssumption, LetterBase, [T!Next]_T!vars
  PROVE  LetterBase'
<1>1. /\ T!TypeOK /\ tReq \in [Mailings -> LetterRequest] /\ \A r \in Mailings : LetterHeld(r)
      /\ \A s \in Students, c \in T!Told : receipts[s] # Blank => <<s, c>> \notin late
  BY DEF LetterBase
<1>2. /\ T!NoReq \in LetterRequest
      /\ regrets \in [Students -> Nat] /\ logs \in [Students -> Nat]
      /\ lost \in [Students -> Nat]
  BY <1>1 DEF T!NoReq, LetterRequest, T!TypeOK
<1>3. ASSUME NEW r \in Mailings, NEW s \in Students, NEW col \in {"review", "category"},
             NEW value \in T!Decisions \cup Categories \cup {Blank},
             NEW step \in {"decide", "regret"}, T!Begin(r, s, col, value), T!Goto(r, step),
             step = "decide" => Columned([column |-> col, value |-> value])
      PROVE  /\ LetterFrame(r) /\ tPc'[r] = step
             /\ tReq'[r] = [student |-> s, column |-> col, value |-> value, loaded |-> record[s]]
             /\ tReq' \in [Mailings -> LetterRequest] /\ \A o \in Mailings : LetterHeld(o)'
  <2>1. PICK q : q = [student |-> s, column |-> col, value |-> value, loaded |-> record[s]]
    OBVIOUS
  <2>2. q \in LetterRequest /\ q.student = s /\ q.loaded \in T!Record
        /\ (Columned(q) <=> Columned([column |-> col, value |-> value]))
    BY <1>1, <2>1 DEF LetterRequest, T!TypeOK, Columned
  <2>3. tReq' = [tReq EXCEPT ![r] = q] /\ tPc' = [tPc EXCEPT ![r] = step]
    BY <1>3, <2>1 DEF T!Begin, T!Goto
  <2>4. tReq'[r] = q /\ tPc'[r] = step /\ LetterFrame(r)
    BY <2>3, LetterMoves
  <2>5. LetterHeld(r)'
    BY <1>3, <2>2, <2>4 DEF LetterHeld, T!InFlight, Columned
  <2> QED BY <1>1, <2>1, <2>2, <2>3, <2>4, <2>5, LetterKeepsHeld
<1>4. ASSUME NEW r \in Mailings, T!DecisionBegin(r) PROVE LetterBase'
  <2>1. PICK s \in Students, col \in {"review", "category"},
             value \in T!Decisions \cup Categories \cup {Blank} :
          /\ Columned([column |-> col, value |-> value])
          /\ T!Begin(r, s, col, value)
          /\ tCrossed' = IF T!Deciding(s) # {} THEN tCrossed \cup {s} ELSE tCrossed
    BY <1>4 DEF T!DecisionBegin, Columned
  <2>2. T!Goto(r, "decide") /\ UNCHANGED <<record, edits, T!mail>>
    BY <1>4 DEF T!DecisionBegin
  <2>3. tReq' \in [Mailings -> LetterRequest] /\ \A o \in Mailings : LetterHeld(o)'
    BY <1>3, <2>1, <2>2
  <2>4. T!TypeOK'
    BY <1>1, <2>1, <2>2 DEF T!TypeOK, T!mail, T!Goto
  <2> QED BY <1>1, <2>2, <2>3, <2>4 DEF LetterBase, T!mail
<1>5. ASSUME NEW r \in Mailings, T!RegretBegin(r) PROVE LetterBase'
  <2>1. PICK s \in Students : T!Begin(r, s, "review", Blank)
    BY <1>5 DEF T!RegretBegin
  <2>2. T!Goto(r, "regret") /\ UNCHANGED <<record, edits, tCrossed, T!mail>>
    BY <1>5 DEF T!RegretBegin
  <2>3. tReq' \in [Mailings -> LetterRequest] /\ \A o \in Mailings : LetterHeld(o)'
    BY <1>3, <2>1, <2>2
  <2>4. T!TypeOK'
    BY <1>1, <2>1, <2>2 DEF T!TypeOK, T!mail, T!Goto
  <2> QED BY <1>1, <2>2, <2>3, <2>4 DEF LetterBase, T!mail
<1>6. ASSUME NEW r \in Mailings, T!DecisionCommit(r) PROVE LetterBase'
  <2>1. PICK q \in LetterRequest : q = tReq[r]
    BY <1>1
  <2>2. q.student \in Students /\ q.loaded \in T!Record /\ Columned(q)
    BY <1>1, <1>6, <2>1 DEF LetterHeld, T!InFlight, T!DecisionCommit
  <2>3. PICK kept : kept = [record[q.student] EXCEPT ![q.column] =
                             IF q.loaded[q.column] = q.value THEN @ ELSE q.value]
    OBVIOUS
  <2>4. record[q.student] \in T!Record
    BY <1>1, <2>2 DEF T!TypeOK
  <2>5. kept \in T!Record
    BY <2>2, <2>3, <2>4 DEF Columned, T!Record
  <2>6. record' = [record EXCEPT ![q.student] = kept]
    BY <1>1, <1>6, <2>1, <2>2, <2>3 DEF T!DecisionCommit, T!TypeOK
  <2>7. record' \in [Students -> T!Record] /\ record'[q.student] = kept
    BY <1>1, <2>2, <2>5, <2>6 DEF T!TypeOK
  <2>8. PICK p : p = [q EXCEPT !.loaded = kept]
    OBVIOUS
  <2>9. p \in LetterRequest /\ p.student = q.student /\ p.loaded = kept
        /\ (Columned(p) <=> Columned(q))
    BY <2>1, <2>5, <2>8 DEF LetterRequest, Columned
  <2>10. tReq' = [tReq EXCEPT ![r] = p] /\ tPc' = [tPc EXCEPT ![r] = "tell"]
    BY <1>1, <1>6, <2>1, <2>7, <2>8 DEF T!DecisionCommit, T!Goto
  <2>11. tReq'[r] = p /\ tPc'[r] = "tell" /\ LetterFrame(r)
    BY <2>10, LetterMoves
  <2>12. LetterHeld(r)'
    BY <2>2, <2>5, <2>9, <2>11 DEF LetterHeld, T!InFlight
  <2>13. \A o \in Mailings : LetterHeld(o)'
    BY <2>11, <2>12, LetterKeepsHeld
  <2>14. T!TypeOK'
    BY <1>1, <1>6, <2>7, <2>10 DEF T!TypeOK, T!DecisionCommit, T!mail
  <2>15. tReq' \in [Mailings -> LetterRequest]
    BY <1>1, <2>9, <2>10
  <2> QED BY <1>1, <1>6, <2>13, <2>14, <2>15 DEF LetterBase, T!DecisionCommit, T!mail
<1>7. ASSUME NEW r \in Mailings, NEW step \in {"done", "failed"},
             tReq' = [tReq EXCEPT ![r] = T!NoReq], T!Goto(r, step), T!TypeOK',
             receipts' = receipts, late' \subseteq late
      PROVE  LetterBase'
  <2>1. tReq'[r] = T!NoReq /\ tPc'[r] = step /\ LetterFrame(r)
    BY <1>7, LetterMoves DEF T!Goto
  <2>2. LetterHeld(r)'
    BY <2>1 DEF LetterHeld, T!InFlight
  <2>3. \A o \in Mailings : LetterHeld(o)'
    BY <2>1, <2>2, LetterKeepsHeld
  <2>4. tReq' \in [Mailings -> LetterRequest]
    BY <1>1, <1>2, <1>7
  <2> QED BY <1>1, <1>7, <2>3, <2>4 DEF LetterBase
<1>8. \A r \in T!InFlight : tReq[r].student \in Students
  BY <1>1 DEF LetterHeld, T!InFlight
<1>9. ASSUME NEW r \in Mailings, T!Tell(r) PROVE LetterBase'
  <2>1. PICK q \in LetterRequest : q = tReq[r]
    BY <1>1
  <2>2. q.student \in Students /\ q.loaded \in T!Record /\ Columned(q)
    BY <1>1, <1>9, <2>1 DEF LetterHeld, T!InFlight, T!Tell
  <2>3. PICK box : box = T!DecisionLetter(inbox[q.student], q)
    OBVIOUS
  <2>4. box \in [review: T!Decisions \cup {"UNDER REVIEW", Blank}, category: Categories \cup {Blank}]
    <3>1. inbox[q.student] \in [review: T!Decisions \cup {"UNDER REVIEW", Blank},
                                category: Categories \cup {Blank}]
      BY <1>1, <2>2 DEF T!TypeOK
    <3>2. q.loaded.category \in Categories
      BY <2>2 DEF T!Record
    <3> QED BY <2>2, <2>3, <3>1, <3>2 DEF Columned, T!DecisionLetter, T!CategoryLetter,
            T!ApprovalLetter, T!RejectionLetter, T!Decisions
  <2>5. T!TypeOK'
    <3>1. CASE inbox' = [inbox EXCEPT ![q.student] = T!DecisionLetter(@, q)]
      <4>1. inbox' = [inbox EXCEPT ![q.student] = box]
        BY <1>1, <2>2, <2>3, <3>1 DEF T!TypeOK
      <4>2. inbox' \in [Students -> [review: T!Decisions \cup {"UNDER REVIEW", Blank},
                                     category: Categories \cup {Blank}]]
        BY <1>1, <2>4, <4>1 DEF T!TypeOK
      <4>3. texted' \subseteq Students /\ tCrossed' \subseteq Students
        BY <1>1, <1>9, <2>1, <2>2 DEF T!Tell, T!TypeOK
      <4>4. late' \subseteq late
        BY <1>9 DEF T!Tell
      <4> QED BY <1>1, <1>9, <4>2, <4>3, <4>4 DEF T!Tell, T!Goto, T!TypeOK
    <3>2. CASE tCrossed' = tCrossed \cup {q.student} /\ UNCHANGED <<inbox, texted, late>>
      BY <1>1, <1>9, <2>2, <3>2 DEF T!Tell, T!Goto, T!TypeOK
    <3> QED BY <1>9, <2>1, <3>1, <3>2 DEF T!Tell
  <2>6. late' \subseteq late
    BY <1>9 DEF T!Tell
  <2> QED BY <1>7, <1>9, <2>5, <2>6 DEF T!Tell
<1>10. ASSUME NEW r \in Mailings, T!RegretMail(r) PROVE LetterBase'
  <2>1. tReq[r].student \in Students
    BY <1>8, <1>10 DEF T!RegretMail, T!InFlight
  <2>2. CASE ~T!RegretWritten(tReq[r].loaded)
    <3>1. T!TypeOK'
      BY <1>1, <1>10, <2>2 DEF T!RegretMail, T!TypeOK, T!Goto
    <3> QED BY <1>7, <1>10, <2>2, <3>1 DEF T!RegretMail
  <2>3. CASE T!RegretWritten(tReq[r].loaded)
    <3>0. regrets' \in [Students -> Nat]
      BY <1>10, <1>2, CountedUp, <2>1, <2>3 DEF T!RegretMail
    <3>1. T!TypeOK'
      BY <1>1, <1>10, <2>3, <3>0 DEF T!RegretMail, T!TypeOK, T!Goto
    <3>2. tReq' = [tReq EXCEPT ![r] = tReq[r]] /\ tPc' = [tPc EXCEPT ![r] = "record"]
      BY <1>1, <1>10, <2>3 DEF T!RegretMail, T!Goto
    <3>3. tReq'[r] = tReq[r] /\ tPc'[r] = "record" /\ LetterFrame(r)
      BY <3>2, LetterMoves
    <3>4. LetterHeld(r)'
      BY <1>1, <1>10, <3>3 DEF T!RegretMail, LetterHeld, T!InFlight
    <3>5. \A o \in Mailings : LetterHeld(o)'
      BY <3>3, <3>4, LetterKeepsHeld
    <3>6. tReq' \in [Mailings -> LetterRequest]
      BY <1>1, <1>10, <2>3 DEF T!RegretMail
    <3> QED BY <1>1, <1>10, <3>1, <3>5, <3>6 DEF LetterBase, T!RegretMail
  <2> QED BY <2>2, <2>3
<1>11. ASSUME NEW r \in Mailings, T!RegretCommit(r) PROVE LetterBase'
  <2>1. tReq[r].student \in Students
    BY <1>8, <1>11 DEF T!RegretCommit, T!InFlight
  <2>2. PICK row : row = [record[tReq[r].student] EXCEPT !.regret = TRUE]
    OBVIOUS
  <2>3. record[tReq[r].student] \in T!Record
    BY <1>1, <2>1 DEF T!TypeOK
  <2>4. row \in T!Record
    BY <2>2, <2>3 DEF T!Record
  <2>5. record' = [record EXCEPT ![tReq[r].student] = row]
    BY <1>1, <1>11, <2>1, <2>2 DEF T!RegretCommit, T!TypeOK
  <2>6. record' \in [Students -> T!Record]
    BY <1>1, <2>4, <2>5 DEF T!TypeOK
  <2>7. logs' \in [Students -> Nat]
    BY <1>11, <1>2, CountedUp, <2>1 DEF T!RegretCommit
  <2>8. T!TypeOK'
    BY <1>1, <1>11, <2>6, <2>7 DEF T!RegretCommit, T!TypeOK, T!Goto
  <2> QED BY <1>7, <1>11, <2>8 DEF T!RegretCommit
<1>12. ASSUME NEW r \in Mailings, T!Fail(r) PROVE LetterBase'
  <2>1. tReq[r].student \in Students
    BY <1>8, <1>12 DEF T!Fail
  <2>2. lost' \in [Students -> Nat] /\ tCrossed' \subseteq Students
    BY <1>1, <1>12, <1>2, CountedUp, <2>1 DEF T!Fail, T!TypeOK
  <2>3. T!TypeOK'
    BY <1>1, <1>12, <2>2 DEF T!Fail, T!TypeOK, T!Goto
  <2> QED BY <1>7, <1>12, <2>3 DEF T!Fail
<1>13. ASSUME UNCHANGED <<tPc, tReq>>, T!TypeOK',
              \A s \in Students, c \in T!Told : receipts'[s] # Blank => <<s, c>> \notin late'
       PROVE  LetterBase'
  BY <1>1, <1>13 DEF LetterBase, LetterHeld, T!InFlight
<1>14. ASSUME NEW s \in Students, T!Receipt(s) PROVE LetterBase'
  <2>1. receipts[s] \in Categories /\ receipts \in [Students -> Categories \cup {Blank}]
    BY <1>1, <1>14 DEF T!TypeOK, T!Receipt
  <2>2. inbox' \in [Students -> [review: T!Decisions \cup {"UNDER REVIEW", Blank},
                                 category: Categories \cup {Blank}]]
    <3> DEFINE Boxes == [review: T!Decisions \cup {"UNDER REVIEW", Blank},
                         category: Categories \cup {Blank}]
    <3>1. T!RegistrationReceipt(receipts[s]) \in Boxes
      BY <2>1 DEF T!RegistrationReceipt
    <3>2. inbox \in [Students -> Boxes]
      BY <1>1 DEF T!TypeOK
    <3>3. inbox' = inbox \/ inbox' = [inbox EXCEPT ![s] = T!RegistrationReceipt(receipts[s])]
      BY <1>14 DEF T!Receipt
    <3> HIDE DEF Boxes
    <3>4. inbox' \in [Students -> Boxes]
      BY <3>1, <3>2, <3>3
    <3> QED BY <3>4 DEF Boxes
  <2>3. receipts' = [receipts EXCEPT ![s] = Blank]
        /\ (late' = late \/ late' = late \cup ({s} \X {c \in T!Told : inbox[s][c] # Blank}))
    BY <1>14 DEF T!Receipt
  <2>4. T!TypeOK'
    BY <1>1, <1>14, <2>1, <2>2, <2>3 DEF T!Receipt, T!TypeOK
  <2>5. ASSUME NEW o \in Students, NEW c \in T!Told, receipts'[o] # Blank
        PROVE  <<o, c>> \notin late'
    <3>1. o # s /\ receipts[o] # Blank
      BY <2>1, <2>3, <2>5
    <3> QED BY <1>1, <2>3, <3>1
  <2>6. UNCHANGED <<tPc, tReq>>
    BY <1>14 DEF T!Receipt
  <2> QED BY <1>13, <2>4, <2>5, <2>6
<1>15. ASSUME NEW s \in Students, T!SetDeletion(s) PROVE LetterBase'
  <2>1. PICK row : row = [record[s] EXCEPT !.deletion = IF @ = "none" THEN "given" ELSE "none"]
    OBVIOUS
  <2>2. record[s] \in T!Record
    BY <1>1 DEF T!TypeOK
  <2>3. row \in T!Record
    BY <2>1, <2>2 DEF T!Record
  <2>4. record' = [record EXCEPT ![s] = row]
    BY <1>1, <1>15, <2>1 DEF T!SetDeletion, T!TypeOK
  <2>5. record' \in [Students -> T!Record]
    BY <1>1, <2>3, <2>4 DEF T!TypeOK
  <2>6. edits' \in 0..MaxEdits
    <3>1. edits \in 0..MaxEdits /\ MaxEdits \in Nat
      BY <1>1 DEF T!TypeOK, T!LettersAssumption
    <3>2. edits < MaxEdits /\ edits' = edits + 1
      BY <1>15 DEF T!SetDeletion
    <3> QED BY <3>1, <3>2
  <2>7. T!TypeOK'
    BY <1>1, <1>15, <2>5, <2>6 DEF T!SetDeletion, T!TypeOK, T!mail
  <2> QED BY <1>1, <1>13, <1>15, <2>7 DEF T!SetDeletion, T!mail
<1>16. CASE UNCHANGED T!vars
  BY <1>1, <1>13, <1>16 DEF T!vars, T!TypeOK
<1> QED BY <1>4, <1>5, <1>6, <1>9, <1>10, <1>11, <1>12, <1>14, <1>15, <1>16 DEF T!Next

(* What a decision leaves on record and in the request that made it.       *)
LEMMA DecisionEffect ==
  ASSUME LetterBase, NEW r \in Mailings, T!DecisionCommit(r)
  PROVE  LET q == tReq[r]  s == q.student IN
         /\ s \in Students /\ Columned(q) /\ q.loaded \in T!Record
         /\ \A o \in Students \ {s} : record'[o] = record[o]
         /\ record'[s].regret = record[s].regret
         /\ q.column = "review" =>
              /\ record'[s].category = record[s].category
              /\ record'[s].review = IF q.loaded.review = q.value THEN record[s].review
                                     ELSE q.value
         /\ q.column = "category" =>
              /\ record'[s].review = record[s].review
              /\ record'[s].category = IF q.loaded.category = q.value THEN record[s].category
                                       ELSE q.value
         /\ tReq'[r].student = s /\ tReq'[r].column = q.column /\ tReq'[r].value = q.value
         /\ tReq'[r].loaded = record'[s]
         /\ tPc[r] = "decide" /\ tPc'[r] = "tell" /\ LetterFrame(r)
<1>1. PICK q \in LetterRequest : q = tReq[r]
  BY DEF LetterBase
<1>2. PICK s \in Students : s = q.student
  BY <1>1 DEF LetterBase, LetterHeld, T!InFlight, T!DecisionCommit
<1>3. Columned(q) /\ q.loaded \in T!Record /\ tPc[r] = "decide"
  BY <1>1 DEF LetterBase, LetterHeld, T!InFlight, T!DecisionCommit
<1>4. PICK kept : kept = [record[s] EXCEPT ![q.column] =
                           IF q.loaded[q.column] = q.value THEN @ ELSE q.value]
  OBVIOUS
<1>5. record \in [Students -> T!Record] /\ record[s] \in T!Record
  BY DEF LetterBase, T!TypeOK
<1>6. record' = [record EXCEPT ![s] = kept]
  BY <1>1, <1>2, <1>4, <1>5 DEF T!DecisionCommit
<1>7. record'[s] = kept /\ \A o \in Students \ {s} : record'[o] = record[o]
  BY <1>5, <1>6
<1>8. kept.regret = record[s].regret
  BY <1>3, <1>4, <1>5 DEF Columned, T!Record
<1>9. q.column = "review" =>
        /\ kept.category = record[s].category
        /\ kept.review = IF q.loaded.review = q.value THEN record[s].review ELSE q.value
  BY <1>4, <1>5 DEF T!Record
<1>10. q.column = "category" =>
        /\ kept.review = record[s].review
        /\ kept.category = IF q.loaded.category = q.value THEN record[s].category ELSE q.value
  BY <1>4, <1>5 DEF T!Record
<1>11. PICK p : p = [q EXCEPT !.loaded = kept]
  OBVIOUS
<1>12. p.student = s /\ p.column = q.column /\ p.value = q.value /\ p.loaded = kept
  BY <1>1, <1>2, <1>11 DEF LetterRequest
<1>13. tReq' = [tReq EXCEPT ![r] = p] /\ tPc' = [tPc EXCEPT ![r] = "tell"]
  BY <1>1, <1>2, <1>7, <1>11 DEF T!DecisionCommit, T!Goto, LetterBase
<1>14. tReq'[r] = p /\ tPc'[r] = "tell" /\ LetterFrame(r)
  BY <1>13, LetterMoves
<1> QED BY <1>1, <1>2, <1>3, <1>7, <1>8, <1>9, <1>10, <1>12, <1>14

(* The regret letters that are out and not yet on the log.                 *)
Between(s) == {r \in Mailings : tPc[r] = "record" /\ tReq[r].student = s}
Accounted(s) ==
  /\ regrets[s] = logs[s] + lost[s] + Cardinality(Between(s))
  /\ record[s].regret <=> logs[s] > 0
RegretInv == \A s \in Students : Accounted(s)

LEMMA LetterCounts ==
  /\ \A S : T!Cardinality(S) = Cardinality(S)
  /\ \A S : T!IsFiniteSet(S) <=> IsFiniteSet(S)
BY DEF T!Cardinality, Cardinality, T!IsFiniteSet, IsFiniteSet

LEMMA BetweenFinite ==
  ASSUME T!LettersAssumption, NEW s
  PROVE  IsFiniteSet(Between(s)) /\ Cardinality(Between(s)) \in Nat
<1>1. IsFiniteSet(Mailings)
  BY LetterCounts DEF T!LettersAssumption
<1> QED BY <1>1, FS_Subset, FS_CardinalityType DEF Between

LEMMA RegretInit == T!LettersAssumption /\ T!Init => RegretInv
<1> SUFFICES ASSUME T!LettersAssumption, T!Init, NEW s \in Students PROVE Accounted(s)
  BY DEF RegretInv
<1>1. Between(s) = {}
  BY DEF T!Init, Between
<1>2. regrets[s] = 0 /\ logs[s] = 0 /\ lost[s] = 0 /\ record[s].regret = FALSE
  BY DEF T!Init
<1> QED BY <1>1, <1>2, FS_EmptySet DEF Accounted

LEMMA RegretStep ==
  ASSUME T!LettersAssumption, LetterBase, RegretInv, [T!Next]_T!vars
  PROVE  RegretInv'
<1>1. ASSUME NEW s \in Students, Between(s)' = Between(s), regrets'[s] = regrets[s],
             logs'[s] = logs[s], lost'[s] = lost[s], record'[s].regret = record[s].regret
      PROVE  Accounted(s)'
  BY <1>1 DEF RegretInv, Accounted
<1>2. /\ regrets \in [Students -> Nat] /\ logs \in [Students -> Nat]
      /\ lost \in [Students -> Nat] /\ record \in [Students -> T!Record]
  BY DEF LetterBase, T!TypeOK
<1>3. ASSUME NEW r \in Mailings, LetterFrame(r), tPc[r] # "record", tPc'[r] # "record"
      PROVE  \A s : Between(s)' = Between(s)
  BY <1>3 DEF Between, LetterFrame
<1>4. ASSUME NEW r \in Mailings, T!DecisionCommit(r) PROVE RegretInv'
  <2>1. \A s \in Students : record'[s].regret = record[s].regret
    BY <1>4, DecisionEffect
  <2>2. \A s : Between(s)' = Between(s)
    BY <1>3, <1>4, DecisionEffect
  <2> QED BY <1>1, <1>4, <2>1, <2>2 DEF T!DecisionCommit, T!mail, RegretInv
<1>5. ASSUME NEW r \in Mailings,
             T!DecisionBegin(r) \/ T!RegretBegin(r) \/ T!Tell(r)
               \/ (T!RegretMail(r) /\ ~T!RegretWritten(tReq[r].loaded))
               \/ (T!Fail(r) /\ tPc[r] # "record")
      PROVE  RegretInv'
  <2>0. ASSUME NEW s \in Students, NEW col, NEW value, NEW stp \in {"decide", "regret"},
               T!Begin(r, s, col, value), T!Goto(r, stp)
        PROVE  \E e \in {"decide", "regret", "done", "failed"} : \E q :
                 tReq' = [tReq EXCEPT ![r] = q] /\ tPc' = [tPc EXCEPT ![r] = e]
    BY <2>0 DEF T!Begin, T!Goto
  <2>1. PICK step \in {"decide", "regret", "done", "failed"} :
          \E q : tReq' = [tReq EXCEPT ![r] = q] /\ tPc' = [tPc EXCEPT ![r] = step]
    <3>1. CASE T!DecisionBegin(r)
      BY <2>0, <3>1 DEF T!DecisionBegin
    <3>2. CASE T!RegretBegin(r)
      BY <2>0, <3>2 DEF T!RegretBegin
    <3>3. CASE T!Tell(r)
      BY <3>3 DEF T!Tell, T!Goto
    <3>4. CASE T!RegretMail(r) /\ ~T!RegretWritten(tReq[r].loaded)
      BY <3>4 DEF T!RegretMail, T!Goto
    <3>5. CASE T!Fail(r)
      BY <3>5 DEF T!Fail, T!Goto
    <3> QED BY <1>5, <3>1, <3>2, <3>3, <3>4, <3>5
  <2>2. LetterFrame(r) /\ tPc'[r] = step
    BY <2>1, LetterMoves
  <2>3. tPc[r] # "record" /\ UNCHANGED <<regrets, logs, lost, record>>
    BY <1>5 DEF T!DecisionBegin, T!RegretBegin, T!Begin, T!Tell, T!RegretMail, T!Fail, T!Goto,
              T!mail
  <2> QED BY <1>1, <1>3, <2>2, <2>3 DEF RegretInv
<1>6. ASSUME NEW r \in Mailings, T!RegretMail(r), T!RegretWritten(tReq[r].loaded)
      PROVE  RegretInv'
  <2>1. PICK s \in Students : s = tReq[r].student
    BY <1>6 DEF LetterBase, LetterHeld, T!InFlight, T!RegretMail
  <2>2. /\ tPc[r] = "regret" /\ regrets' = [regrets EXCEPT ![s] = @ + 1]
        /\ tReq' = [tReq EXCEPT ![r] = tReq[r]] /\ tPc' = [tPc EXCEPT ![r] = "record"]
        /\ UNCHANGED <<logs, lost, record>>
    BY <1>6, <2>1 DEF T!RegretMail, T!Goto, LetterBase
  <2>3. LetterFrame(r) /\ tPc'[r] = "record" /\ tReq'[r] = tReq[r]
    BY <2>2, LetterMoves
  <2>4. r \notin Between(s) /\ Between(s)' = Between(s) \cup {r}
    BY <2>1, <2>2, <2>3 DEF Between, LetterFrame
  <2>5. \A o \in Students \ {s} : Between(o)' = Between(o)
    BY <2>1, <2>2, <2>3 DEF Between, LetterFrame
  <2>6. Cardinality(Between(s)') = Cardinality(Between(s)) + 1
    BY <2>4, BetweenFinite, FS_AddElement
  <2>7. regrets'[s] = regrets[s] + 1 /\ \A o \in Students \ {s} : regrets'[o] = regrets[o]
    BY <1>2, <2>2
  <2>8. Accounted(s)'
    <3>1. regrets[s] = logs[s] + lost[s] + Cardinality(Between(s)) /\ Accounted(s)
      BY DEF RegretInv, Accounted
    <3>2. regrets'[s] = logs[s] + lost[s] + Cardinality(Between(s)')
      BY <1>2, <2>6, <2>7, <3>1, BetweenFinite
    <3> QED BY <2>2, <3>1, <3>2 DEF Accounted
  <2> QED BY <1>1, <2>2, <2>5, <2>7, <2>8 DEF RegretInv
<1>7. ASSUME NEW r \in Mailings, NEW s \in Students, s = tReq[r].student, tPc[r] = "record",
             NEW step \in {"done", "failed"}, tPc' = [tPc EXCEPT ![r] = step],
             tReq' = [tReq EXCEPT ![r] = T!NoReq]
      PROVE  /\ Cardinality(Between(s)') = Cardinality(Between(s)) - 1
             /\ \A o \in Students \ {s} : Between(o)' = Between(o)
  <2>1. LetterFrame(r) /\ tPc'[r] = step
    BY <1>7, LetterMoves
  <2>2. r \in Between(s) /\ Between(s)' = Between(s) \ {r}
    BY <1>7, <2>1 DEF Between, LetterFrame
  <2>3. \A o \in Students \ {s} : Between(o)' = Between(o)
    BY <1>7, <2>1 DEF Between, LetterFrame
  <2> QED BY <2>2, <2>3, BetweenFinite, FS_RemoveElement
<1>8. ASSUME NEW r \in Mailings, T!RegretCommit(r) PROVE RegretInv'
  <2>1. PICK s \in Students : s = tReq[r].student
    BY <1>8 DEF LetterBase, LetterHeld, T!InFlight, T!RegretCommit
  <2>2. /\ tPc[r] = "record" /\ tPc' = [tPc EXCEPT ![r] = "done"]
        /\ tReq' = [tReq EXCEPT ![r] = T!NoReq]
        /\ record' = [record EXCEPT ![s].regret = TRUE]
        /\ logs' = [logs EXCEPT ![s] = @ + 1] /\ UNCHANGED <<regrets, lost>>
    BY <1>8, <2>1 DEF T!RegretCommit, T!Goto
  <2>3. /\ Cardinality(Between(s)') = Cardinality(Between(s)) - 1
        /\ \A o \in Students \ {s} : Between(o)' = Between(o)
    BY <1>7, <2>1, <2>2
  <2>4. logs'[s] = logs[s] + 1 /\ \A o \in Students \ {s} : logs'[o] = logs[o]
    BY <1>2, <2>2
  <2>5. record'[s].regret = TRUE /\ \A o \in Students \ {s} : record'[o] = record[o]
    BY <1>2, <2>2 DEF T!Record
  <2>6. regrets[s] = logs[s] + lost[s] + Cardinality(Between(s))
    BY DEF RegretInv, Accounted
  <2>7. regrets[s] = logs'[s] + lost[s] + Cardinality(Between(s)') /\ logs'[s] > 0
    BY <1>2, <2>3, <2>4, <2>6, BetweenFinite
  <2>8. Accounted(s)'
    BY <2>2, <2>5, <2>7 DEF Accounted
  <2> QED BY <1>1, <2>2, <2>3, <2>4, <2>5, <2>8 DEF RegretInv
<1>9. ASSUME NEW r \in Mailings, T!Fail(r), tPc[r] = "record" PROVE RegretInv'
  <2>1. PICK s \in Students : s = tReq[r].student
    BY <1>9 DEF LetterBase, LetterHeld, T!InFlight
  <2>2. /\ tPc' = [tPc EXCEPT ![r] = "failed"] /\ tReq' = [tReq EXCEPT ![r] = T!NoReq]
        /\ lost' = [lost EXCEPT ![s] = @ + 1] /\ UNCHANGED <<regrets, logs, record>>
    BY <1>9, <2>1 DEF T!Fail, T!Goto
  <2>3. /\ Cardinality(Between(s)') = Cardinality(Between(s)) - 1
        /\ \A o \in Students \ {s} : Between(o)' = Between(o)
    BY <1>7, <1>9, <2>1, <2>2
  <2>4. lost'[s] = lost[s] + 1 /\ \A o \in Students \ {s} : lost'[o] = lost[o]
    BY <1>2, <2>2
  <2>5. regrets[s] = logs[s] + lost[s] + Cardinality(Between(s)) /\ Accounted(s)
    BY DEF RegretInv, Accounted
  <2>6. regrets[s] = logs[s] + lost'[s] + Cardinality(Between(s)')
    BY <1>2, <2>3, <2>4, <2>5, BetweenFinite
  <2>7. Accounted(s)'
    BY <2>2, <2>5, <2>6 DEF Accounted
  <2> QED BY <1>1, <2>2, <2>3, <2>4, <2>7 DEF RegretInv
<1>10. ASSUME UNCHANGED <<tPc, tReq, regrets, logs, lost>>,
              \A s \in Students : record'[s].regret = record[s].regret
       PROVE  RegretInv'
  BY <1>1, <1>10 DEF Between, RegretInv
<1>11. ASSUME NEW s \in Students, T!SetDeletion(s) PROVE RegretInv'
  <2>1. record' = [record EXCEPT ![s].deletion = IF @ = "none" THEN "given" ELSE "none"]
    BY <1>11 DEF T!SetDeletion
  <2>2. \A o \in Students : record'[o].regret = record[o].regret
    BY <1>2, <2>1 DEF T!Record
  <2> QED BY <1>10, <1>11, <2>2 DEF T!SetDeletion, T!mail
<1>12. ASSUME NEW s \in Students, T!Receipt(s) PROVE RegretInv'
  BY <1>10, <1>12 DEF T!Receipt
<1>13. CASE UNCHANGED T!vars
  BY <1>10, <1>13 DEF T!vars
<1> QED BY <1>4, <1>5, <1>6, <1>8, <1>9, <1>11, <1>12, <1>13 DEF T!Next

(* What a student was told, part by part, and what the request that is     *)
(* deciding about him still has to tell.                                   *)
KnowsReview(s) ==
  /\ inbox[s].review \in T!Decisions => inbox[s].review = record[s].review
  /\ record[s].review \in T!Decisions =>
       inbox[s].review = record[s].review \/ <<s, "review">> \in late
  /\ record[s].review = "APPROVED" => s \in texted
KnowsCategory(s) ==
  /\ inbox[s].category # Blank =>
       inbox[s].category = record[s].category \/ <<s, "category">> \in late
  /\ inbox[s].category = Blank /\ receipts[s] # Blank => receipts[s] = record[s].category
KnownBut(s, r) ==
  LET q == tReq[r] IN
  /\ tPc[r] = "decide" =>
       /\ KnowsReview(s) /\ KnowsCategory(s)
       /\ q.loaded.review = record[s].review /\ q.loaded.category = record[s].category
  /\ tPc[r] = "tell" =>
       /\ q.loaded.category = record[s].category
       /\ q.column = "review" => KnowsCategory(s) /\ record[s].review = q.value
       /\ q.column = "category" => KnowsReview(s) /\ record[s].category = q.value
Told(s) ==
  s \notin tCrossed =>
    /\ T!Deciding(s) = {} => KnowsReview(s) /\ KnowsCategory(s)
    /\ \A r \in T!Deciding(s) : T!Deciding(s) = {r} /\ KnownBut(s, r)
ToldInv == \A s \in Students : Told(s)

LEMMA ToldInit == T!LettersAssumption /\ T!Init => ToldInv
<1> SUFFICES ASSUME T!LettersAssumption, T!Init, NEW s \in Students PROVE Told(s)
  BY DEF ToldInv
<1>1. T!Deciding(s) = {}
  BY DEF T!Init, T!Deciding, T!InFlight
<1>2. KnowsReview(s) /\ KnowsCategory(s)
  <2>1. inbox[s].review = Blank /\ inbox[s].category = Blank
        /\ receipts[s] \in {Blank, record[s].category}
    BY DEF T!Init
  <2>2. record[s].review = "PENDING_REVIEW"
    BY DEF T!Init
  <2> QED BY <2>1, <2>2 DEF KnowsReview, KnowsCategory, T!LettersAssumption, T!Decisions
<1> QED BY <1>1, <1>2 DEF Told

(* A student whom a step leaves alone is told what he was told.            *)
SameNews(s) ==
  /\ record'[s].review = record[s].review /\ record'[s].category = record[s].category
  /\ inbox'[s] = inbox[s] /\ receipts'[s] = receipts[s]
  /\ \A c \in T!Told : <<s, c>> \in late' <=> <<s, c>> \in late
LEMMA ToldFrame ==
  ASSUME ToldInv, NEW s \in Students, tCrossed \subseteq tCrossed', texted \subseteq texted',
         SameNews(s), T!Deciding(s)' = T!Deciding(s),
         \A r \in T!Deciding(s) : tReq'[r] = tReq[r] /\ tPc'[r] = tPc[r]
  PROVE  Told(s)'
<1>1. Told(s)
  BY DEF ToldInv
<1>2. (KnowsReview(s) => KnowsReview(s)') /\ (KnowsCategory(s) => KnowsCategory(s)')
  BY DEF SameNews, T!Told, KnowsReview, KnowsCategory
<1>3. \A r \in T!Deciding(s) : KnownBut(s, r) => KnownBut(s, r)'
  BY <1>2 DEF KnownBut, SameNews
<1> QED BY <1>1, <1>2, <1>3 DEF Told

LEMMA DecidingOnly ==
  ASSUME LetterBase, NEW r \in Mailings, LetterFrame(r), NEW s
  PROVE  /\ T!Deciding(s) \subseteq Mailings
         /\ \A o \in Mailings \ {r} : o \in T!Deciding(s)' <=> o \in T!Deciding(s)
         /\ \A o \in T!Deciding(s) \ {r} : tReq'[o] = tReq[o] /\ tPc'[o] = tPc[o]
         /\ r \notin T!Deciding(s) /\ r \notin T!Deciding(s)' => T!Deciding(s)' = T!Deciding(s)
<1>1. T!Deciding(s) \subseteq Mailings /\ T!Deciding(s)' \subseteq Mailings
  BY DEF T!Deciding, T!InFlight
<1>2. \A o \in Mailings \ {r} : o \in T!Deciding(s)' <=> o \in T!Deciding(s)
  BY DEF T!Deciding, LetterFrame
<1> QED BY <1>1, <1>2 DEF LetterFrame

(* The students whom the request r is not about.                           *)
LEMMA ToldOthers ==
  ASSUME LetterBase, ToldInv, NEW r \in Mailings, LetterFrame(r), NEW s \in Students,
         tCrossed \subseteq tCrossed', texted \subseteq texted',
         SameNews(s), r \notin T!Deciding(s), r \notin T!Deciding(s)'
  PROVE  Told(s)'
<1>1. /\ T!Deciding(s)' = T!Deciding(s)
      /\ \A o \in T!Deciding(s) : tReq'[o] = tReq[o] /\ tPc'[o] = tPc[o]
  BY DecidingOnly
<1> QED BY <1>1, ToldFrame

LEMMA ToldDecision ==
  ASSUME LetterBase, ToldInv, NEW r \in Mailings, T!DecisionCommit(r)
  PROVE  ToldInv'
<1>1. PICK s \in Students : s = tReq[r].student
  BY DecisionEffect
<1>2. PICK q : q = tReq[r] /\ Columned(q) /\ tPc[r] = "decide" /\ tPc'[r] = "tell"
         /\ LetterFrame(r)
         /\ (\A o \in Students \ {s} : record'[o] = record[o])
         /\ (q.column = "review" =>
              /\ record'[s].category = record[s].category
              /\ record'[s].review = IF q.loaded.review = q.value THEN record[s].review
                                     ELSE q.value)
         /\ (q.column = "category" =>
              /\ record'[s].review = record[s].review
              /\ record'[s].category = IF q.loaded.category = q.value THEN record[s].category
                                       ELSE q.value)
         /\ tReq'[r].student = s /\ tReq'[r].column = q.column /\ tReq'[r].value = q.value
         /\ tReq'[r].loaded = record'[s]
  BY <1>1, DecisionEffect
<1>3. UNCHANGED <<inbox, texted, tCrossed, receipts, late>>
  BY DEF T!DecisionCommit, T!mail
<1>4. r \in T!Deciding(s) /\ r \in T!Deciding(s)'
  BY <1>1, <1>2 DEF T!Deciding, T!InFlight
<1>5. ASSUME NEW o \in Students \ {s} PROVE Told(o)'
  <2>1. r \notin T!Deciding(o) /\ r \notin T!Deciding(o)'
    BY <1>1, <1>2, <1>5 DEF T!Deciding
  <2>2. SameNews(o)
    BY <1>2, <1>3, <1>5 DEF SameNews
  <2> QED BY <1>2, <1>3, <1>5, <2>1, <2>2, ToldOthers
<1>6. ASSUME s \notin tCrossed' PROVE T!Deciding(s)' = {r} /\ KnownBut(s, r)'
  <2>1. T!Deciding(s) = {r} /\ KnownBut(s, r)
    BY <1>3, <1>4, <1>6 DEF ToldInv, Told
  <2>2. T!Deciding(s)' = {r}
    <3>1. T!Deciding(s)' \subseteq Mailings
      BY DEF T!Deciding, T!InFlight
    <3> QED BY <1>2, <1>4, <2>1, <3>1, DecidingOnly
  <2>3. /\ KnowsReview(s) /\ KnowsCategory(s)
        /\ q.loaded.review = record[s].review /\ q.loaded.category = record[s].category
    BY <1>2, <2>1 DEF KnownBut
  <2>4. CASE q.column = "review"
    <3>1. KnowsCategory(s)' /\ record'[s].review = q.value
      BY <1>2, <1>3, <2>3, <2>4 DEF KnowsCategory
    <3> QED BY <1>2, <2>2, <2>4, <3>1 DEF KnownBut
  <2>5. CASE q.column = "category"
    <3>1. KnowsReview(s)' /\ record'[s].category = q.value
      BY <1>2, <1>3, <2>3, <2>5 DEF KnowsReview
    <3> QED BY <1>2, <2>2, <2>5, <3>1 DEF KnownBut
  <2> QED BY <1>2, <2>4, <2>5 DEF Columned
<1>7. Told(s)'
  BY <1>4, <1>6 DEF Told
<1> QED BY <1>5, <1>7 DEF ToldInv

LEMMA ToldLetter ==
  ASSUME T!LettersAssumption, LetterBase, ToldInv, NEW r \in Mailings, T!Tell(r)
  PROVE  ToldInv'
<1>1. PICK q \in LetterRequest : q = tReq[r]
  BY DEF LetterBase
<1>2. PICK s \in Students : s = q.student
  BY <1>1 DEF LetterBase, LetterHeld, T!InFlight, T!Tell
<1>3. Columned(q) /\ tPc[r] = "tell"
  BY <1>1 DEF LetterBase, LetterHeld, T!Tell
<1>4. tReq' = [tReq EXCEPT ![r] = T!NoReq] /\ tPc' = [tPc EXCEPT ![r] = "done"]
  BY DEF T!Tell, T!Goto
<1>5. tReq'[r] = T!NoReq /\ tPc'[r] = "done" /\ LetterFrame(r)
  BY <1>4, LetterMoves
<1>6. r \in T!Deciding(s) /\ \A o \in Students : r \notin T!Deciding(o)'
  BY <1>1, <1>2, <1>3, <1>5 DEF T!Deciding, T!InFlight
<1>7. /\ inbox \in [Students -> [review: T!Decisions \cup {"UNDER REVIEW", Blank},
                                 category: Categories \cup {Blank}]]
      /\ UNCHANGED <<record, receipts>>
  BY DEF T!Tell, LetterBase, T!TypeOK
<1>8. CASE tCrossed' = tCrossed \cup {s} /\ UNCHANGED <<inbox, texted, late>>
  <2>1. Told(s)'
    BY <1>8 DEF Told
  <2>2. ASSUME NEW o \in Students \ {s} PROVE Told(o)'
    <3>1. r \notin T!Deciding(o)
      BY <1>1, <1>2, <2>2 DEF T!Deciding
    <3>2. SameNews(o)
      BY <1>7, <1>8 DEF SameNews
    <3> QED BY <1>5, <1>6, <1>7, <1>8, <2>2, <3>1, <3>2, ToldOthers
  <2> QED BY <2>1, <2>2 DEF ToldInv
<1>9. CASE /\ inbox' = [inbox EXCEPT ![s] = T!DecisionLetter(@, q)] /\ UNCHANGED tCrossed
           /\ texted' = IF q.value = "APPROVED" THEN texted \cup {s} ELSE texted
           /\ late' = late \ ({s} \X T!NamedBy(q))
  <2>1. inbox'[s] = T!DecisionLetter(inbox[s], q)
        /\ \A o \in Students \ {s} : inbox'[o] = inbox[o]
    BY <1>7, <1>9
  <2>2. texted \subseteq texted'
    BY <1>9
  <2>3. ASSUME NEW o \in Students \ {s} PROVE Told(o)'
    <3>1. r \notin T!Deciding(o)
      BY <1>1, <1>2, <2>3 DEF T!Deciding
    <3>2. SameNews(o)
      BY <1>7, <1>9, <2>1, <2>3 DEF SameNews
    <3> QED BY <1>5, <1>6, <1>7, <1>9, <2>1, <2>2, <2>3, <3>1, <3>2, ToldOthers
  <2>4. ASSUME s \notin tCrossed'
        PROVE  T!Deciding(s)' = {} /\ KnowsReview(s)' /\ KnowsCategory(s)'
    <3>1. T!Deciding(s) = {r} /\ KnownBut(s, r)
      BY <1>6, <1>9, <2>4 DEF ToldInv, Told
    <3>2. T!Deciding(s)' = {}
      <4>1. T!Deciding(s)' \subseteq Mailings
        BY DEF T!Deciding, T!InFlight
      <4> QED BY <1>5, <1>6, <3>1, <4>1, DecidingOnly
    <3>3. /\ q.loaded.category = record[s].category
          /\ q.column = "review" => KnowsCategory(s) /\ record[s].review = q.value
          /\ q.column = "category" => KnowsReview(s) /\ record[s].category = q.value
      BY <1>1, <1>3, <3>1 DEF KnownBut
    <3>4. inbox[s] \in [review: T!Decisions \cup {"UNDER REVIEW", Blank},
                        category: Categories \cup {Blank}]
      BY <1>7
    <3>8. Blank \notin Categories /\ q.loaded.category \in Categories
      BY <1>1, <1>3 DEF T!LettersAssumption, LetterBase, LetterHeld, T!InFlight, T!Record
    <3>5. CASE q.column = "category"
      <4>1. inbox'[s].category = q.value /\ inbox'[s].review = inbox[s].review
        BY <2>1, <3>4, <3>5 DEF T!DecisionLetter, T!CategoryLetter
      <4>2. <<s, "review">> \in late => <<s, "review">> \in late'
        BY <1>9, <3>5 DEF T!NamedBy
      <4>3. KnowsReview(s)'
        BY <1>7, <2>2, <3>3, <3>5, <4>1, <4>2 DEF KnowsReview
      <4>4. KnowsCategory(s)'
        BY <1>3, <1>7, <3>3, <3>5, <3>8, <4>1 DEF KnowsCategory, Columned
      <4> QED BY <3>2, <4>3, <4>4
    <3>6. CASE q.column = "review" /\ q.value = "APPROVED"
      <4>1. inbox'[s] = [review |-> "APPROVED", category |-> q.loaded.category]
        BY <2>1, <3>6 DEF T!DecisionLetter, T!ApprovalLetter
      <4>2. s \in texted' /\ record'[s].review = "APPROVED"
        BY <1>7, <1>9, <3>3, <3>6
      <4>3. KnowsReview(s)'
        BY <4>1, <4>2 DEF KnowsReview, T!Decisions
      <4>4. inbox'[s].category = record'[s].category
        <5>1. inbox'[s].category = q.loaded.category
          BY <4>1
        <5>2. record' = record
          BY <1>7
        <5>3. q.loaded.category = record[s].category
          BY <3>3
        <5> QED BY <5>1, <5>2, <5>3
      <4>5. KnowsCategory(s)'
        BY <3>8, <4>1, <4>4 DEF KnowsCategory
      <4> QED BY <3>2, <4>3, <4>5
    <3>7. CASE q.column = "review" /\ q.value = "REJECTED"
      <4>1. inbox'[s].review = "REJECTED" /\ inbox'[s].category = inbox[s].category
        BY <2>1, <3>4, <3>7 DEF T!DecisionLetter, T!RejectionLetter
      <4>2. KnowsReview(s)'
        BY <1>7, <3>3, <3>7, <4>1 DEF KnowsReview
      <4>4. <<s, "category">> \in late => <<s, "category">> \in late'
        BY <1>9, <3>7 DEF T!NamedBy
      <4>3. KnowsCategory(s)'
        BY <1>7, <3>3, <3>7, <4>1, <4>4 DEF KnowsCategory
      <4> QED BY <3>2, <4>2, <4>3
    <3> QED BY <1>3, <3>5, <3>6, <3>7 DEF Columned, T!Decisions
  <2>5. Told(s)'
    BY <2>4 DEF Told
  <2> QED BY <2>3, <2>5 DEF ToldInv
<1> QED BY <1>1, <1>2, <1>8, <1>9 DEF T!Tell

LEMMA ToldStep ==
  ASSUME T!LettersAssumption, LetterBase, ToldInv, [T!Next]_T!vars
  PROVE  ToldInv'
<1>1. record \in [Students -> T!Record]
  BY DEF LetterBase, T!TypeOK
<1>2. ASSUME NEW r \in Mailings, T!DecisionBegin(r) PROVE ToldInv'
  <2>1. PICK s \in Students, col \in {"review", "category"}, value \in T!Decisions \cup Categories :
          /\ T!Begin(r, s, col, value)
          /\ tCrossed' = IF T!Deciding(s) # {} THEN tCrossed \cup {s} ELSE tCrossed
    BY <1>2 DEF T!DecisionBegin
  <2>2. T!Goto(r, "decide") /\ UNCHANGED <<record, inbox, texted, receipts, late>>
    BY <1>2 DEF T!DecisionBegin, T!mail
  <2>3. PICK q : q = [student |-> s, column |-> col, value |-> value, loaded |-> record[s]]
    OBVIOUS
  <2>4. /\ tReq' = [tReq EXCEPT ![r] = q] /\ tPc' = [tPc EXCEPT ![r] = "decide"]
        /\ tPc[r] = "idle"
    BY <2>1, <2>2, <2>3 DEF T!Begin, T!Goto
  <2>5. tReq'[r] = q /\ tPc'[r] = "decide" /\ LetterFrame(r)
    BY <2>4, LetterMoves
  <2>6. r \in T!Deciding(s)' /\ \A o \in Students : r \notin T!Deciding(o)
    BY <2>3, <2>4, <2>5 DEF T!Deciding, T!InFlight
  <2>7. ASSUME NEW o \in Students \ {s} PROVE Told(o)'
    <3>1. r \notin T!Deciding(o)'
      BY <2>3, <2>5, <2>7 DEF T!Deciding
    <3>2. SameNews(o)
      BY <2>2 DEF SameNews
    <3> QED BY <2>1, <2>2, <2>5, <2>6, <2>7, <3>1, <3>2, ToldOthers
  <2>8. ASSUME s \notin tCrossed' PROVE T!Deciding(s)' = {r} /\ KnownBut(s, r)'
    <3>1. T!Deciding(s) = {} /\ s \notin tCrossed
      BY <2>1, <2>8
    <3>2. KnowsReview(s) /\ KnowsCategory(s)
      BY <3>1 DEF ToldInv, Told
    <3>3. KnowsReview(s)' /\ KnowsCategory(s)'
      BY <2>2, <3>2 DEF KnowsReview, KnowsCategory
    <3>4. T!Deciding(s)' = {r}
      <4>1. T!Deciding(s)' \subseteq Mailings
        BY DEF T!Deciding, T!InFlight
      <4> QED BY <2>5, <2>6, <3>1, <4>1, DecidingOnly
    <3> QED BY <2>2, <2>3, <2>5, <3>3, <3>4 DEF KnownBut
  <2>9. Told(s)'
    BY <2>6, <2>8 DEF Told
  <2> QED BY <2>7, <2>9 DEF ToldInv
<1>3. ASSUME NEW r \in Mailings, LetterFrame(r), UNCHANGED <<inbox, texted, receipts, late>>,
             tCrossed \subseteq tCrossed',
             \A s \in Students : /\ record'[s].review = record[s].review
                                 /\ record'[s].category = record[s].category
                                 /\ r \notin T!Deciding(s) /\ r \notin T!Deciding(s)'
      PROVE  ToldInv'
  <2>1. \A s \in Students : SameNews(s)
    BY <1>3 DEF SameNews
  <2> QED BY <1>3, <2>1, ToldOthers DEF ToldInv
<1>4. ASSUME NEW r \in Mailings, T!RegretBegin(r) PROVE ToldInv'
  <2>1. PICK s \in Students : T!Begin(r, s, "review", Blank)
    BY <1>4 DEF T!RegretBegin
  <2>2. PICK q : tReq' = [tReq EXCEPT ![r] = q] /\ tPc' = [tPc EXCEPT ![r] = "regret"]
                 /\ tPc[r] = "idle"
    BY <1>4, <2>1 DEF T!Begin, T!RegretBegin, T!Goto
  <2>3. tPc'[r] = "regret" /\ LetterFrame(r)
    BY <2>2, LetterMoves
  <2>4. \A o \in Students : r \notin T!Deciding(o) /\ r \notin T!Deciding(o)'
    BY <2>2, <2>3 DEF T!Deciding
  <2> QED BY <1>3, <1>4, <2>3, <2>4 DEF T!RegretBegin, T!mail
<1>5. ASSUME NEW r \in Mailings, T!RegretMail(r) PROVE ToldInv'
  <2>1. PICK q : \E e \in {"record", "failed"} :
          tReq' = [tReq EXCEPT ![r] = q] /\ tPc' = [tPc EXCEPT ![r] = e]
    <3>1. CASE T!RegretWritten(tReq[r].loaded)
      <4>1. tReq' = [tReq EXCEPT ![r] = tReq[r]] /\ tPc' = [tPc EXCEPT ![r] = "record"]
        BY <1>5, <3>1 DEF T!RegretMail, T!Goto, LetterBase
      <4> QED BY <4>1
    <3>2. CASE ~T!RegretWritten(tReq[r].loaded)
      BY <1>5, <3>2 DEF T!RegretMail, T!Goto
    <3> QED BY <3>1, <3>2
  <2>2. PICK e \in {"record", "failed"} :
          tReq' = [tReq EXCEPT ![r] = q] /\ tPc' = [tPc EXCEPT ![r] = e]
    BY <2>1
  <2>3. tPc'[r] = e /\ LetterFrame(r) /\ tPc[r] = "regret"
    BY <1>5, <2>2, LetterMoves DEF T!RegretMail
  <2>4. \A o \in Students : r \notin T!Deciding(o) /\ r \notin T!Deciding(o)'
    BY <2>3 DEF T!Deciding
  <2> QED BY <1>3, <1>5, <2>3, <2>4 DEF T!RegretMail
<1>6. ASSUME NEW r \in Mailings, T!RegretCommit(r) PROVE ToldInv'
  <2>1. /\ tReq' = [tReq EXCEPT ![r] = T!NoReq] /\ tPc' = [tPc EXCEPT ![r] = "done"]
        /\ record' = [record EXCEPT ![tReq[r].student].regret = TRUE]
    BY <1>6 DEF T!RegretCommit, T!Goto
  <2>2. tPc'[r] = "done" /\ LetterFrame(r) /\ tPc[r] = "record"
    BY <1>6, <2>1, LetterMoves DEF T!RegretCommit
  <2>3. \A s \in Students : /\ record'[s].review = record[s].review
                            /\ record'[s].category = record[s].category
    BY <1>1, <2>1 DEF T!Record
  <2>4. \A o \in Students : r \notin T!Deciding(o) /\ r \notin T!Deciding(o)'
    BY <2>2 DEF T!Deciding
  <2> QED BY <1>3, <1>6, <2>2, <2>3, <2>4 DEF T!RegretCommit
<1>7. ASSUME NEW r \in Mailings, T!Fail(r) PROVE ToldInv'
  <2>1. PICK s : s = tReq[r].student
    OBVIOUS
  <2>2. /\ tReq' = [tReq EXCEPT ![r] = T!NoReq] /\ tPc' = [tPc EXCEPT ![r] = "failed"]
        /\ UNCHANGED <<record, inbox, texted, receipts, late>> /\ tCrossed \subseteq tCrossed'
        /\ tPc[r] = "tell" => s \in tCrossed'
    BY <1>7, <2>1 DEF T!Fail, T!Goto
  <2>3. tPc'[r] = "failed" /\ LetterFrame(r)
    BY <2>2, LetterMoves
  <2>4. \A o \in Students : r \notin T!Deciding(o)'
    BY <2>3 DEF T!Deciding
  <2>5. ASSUME NEW o \in Students, r \in T!Deciding(o) PROVE Told(o)'
    <3>1. o = s
      BY <2>1, <2>5 DEF T!Deciding
    <3>2. ASSUME o \notin tCrossed' PROVE T!Deciding(o)' = {} /\ KnowsReview(o)' /\ KnowsCategory(o)'
      <4>1. T!Deciding(o) = {r} /\ KnownBut(o, r) /\ tPc[r] = "decide"
        BY <2>2, <2>5, <3>1, <3>2 DEF ToldInv, Told, T!Deciding
      <4>2. KnowsReview(o)' /\ KnowsCategory(o)'
        BY <2>2, <4>1 DEF KnownBut, KnowsReview, KnowsCategory
      <4>3. T!Deciding(o)' \subseteq Mailings
        BY DEF T!Deciding, T!InFlight
      <4> QED BY <2>3, <2>4, <4>1, <4>2, <4>3, DecidingOnly
    <3> QED BY <3>2 DEF Told
  <2>6. ASSUME NEW o \in Students, r \notin T!Deciding(o) PROVE Told(o)'
    <3>1. SameNews(o)
      BY <2>2 DEF SameNews
    <3> QED BY <2>2, <2>3, <2>4, <2>6, <3>1, ToldOthers
  <2> QED BY <2>5, <2>6 DEF ToldInv
<1>8. ASSUME UNCHANGED <<tPc, tReq, texted, tCrossed>>, NEW s \in Students,
             SameNews(s)
      PROVE  Told(s)'
  BY <1>8, ToldFrame DEF T!Deciding, T!InFlight
<1>9. ASSUME NEW s \in Students, T!SetDeletion(s) PROVE ToldInv'
  <2>1. record' = [record EXCEPT ![s].deletion = IF @ = "none" THEN "given" ELSE "none"]
    BY <1>9 DEF T!SetDeletion
  <2>2. \A o \in Students : /\ record'[o].review = record[o].review
                            /\ record'[o].category = record[o].category
    BY <1>1, <2>1 DEF T!Record
  <2>3. \A o \in Students : SameNews(o)
    BY <1>9, <2>2 DEF T!SetDeletion, T!mail, SameNews
  <2> QED BY <1>8, <1>9, <2>3 DEF T!SetDeletion, T!mail, ToldInv
<1>10. ASSUME NEW s \in Students, T!Receipt(s) PROVE ToldInv'
  <2>1. /\ receipts[s] \in Categories /\ Blank \notin Categories
        /\ receipts \in [Students -> Categories \cup {Blank}]
        /\ inbox \in [Students -> [review: T!Decisions \cup {"UNDER REVIEW", Blank},
                                   category: Categories \cup {Blank}]]
        /\ <<s, "review">> \notin late /\ <<s, "category">> \notin late
    BY <1>10 DEF LetterBase, T!TypeOK, T!Receipt, T!LettersAssumption, T!Told
  <2>2. receipts' = [receipts EXCEPT ![s] = Blank]
        /\ UNCHANGED <<record, tPc, tReq, texted, tCrossed>>
    BY <1>10 DEF T!Receipt
  <2>3. ASSUME NEW o \in Students \ {s} PROVE Told(o)'
    <3>1. inbox'[o] = inbox[o] /\ \A c : <<o, c>> \in late' <=> <<o, c>> \in late
      BY <1>10, <2>1, <2>3 DEF T!Receipt
    <3>2. SameNews(o)
      BY <2>1, <2>2, <2>3, <3>1 DEF SameNews
    <3> QED BY <1>8, <2>2, <3>2
  (* The receipt goes out, or does not.                                    *)
  <2>4. CASE UNCHANGED <<inbox, late>>
    <3>1. KnowsReview(s) => KnowsReview(s)'
      BY <2>2, <2>4 DEF KnowsReview
    <3>2. KnowsCategory(s) => KnowsCategory(s)'
      BY <2>1, <2>2, <2>4 DEF KnowsCategory
    <3>3. Told(s) => Told(s)'
      BY <2>2, <3>1, <3>2 DEF Told, KnownBut, T!Deciding, T!InFlight
    <3> QED BY <2>3, <3>3 DEF ToldInv
  <2>5. CASE /\ inbox' = [inbox EXCEPT ![s] = T!RegistrationReceipt(receipts[s])]
             /\ late' = late \cup ({s} \X {c \in T!Told : inbox[s][c] # Blank})
    <3>1. inbox'[s].review = "UNDER REVIEW" /\ inbox'[s].category = receipts[s]
      BY <2>1, <2>5 DEF T!RegistrationReceipt
    <3>2. /\ inbox[s].review # Blank => <<s, "review">> \in late'
          /\ inbox[s].category # Blank => <<s, "category">> \in late'
      BY <2>5 DEF T!Told
    <3>3. KnowsReview(s) => KnowsReview(s)'
      <4>1. Blank \notin T!Decisions
        BY DEF T!LettersAssumption, T!Decisions
      <4> QED BY <2>1, <2>2, <3>1, <3>2, <4>1 DEF KnowsReview, T!Decisions
    <3>4. KnowsCategory(s) => KnowsCategory(s)'
      BY <2>1, <2>2, <3>1, <3>2 DEF KnowsCategory
    <3>5. Told(s) => Told(s)'
      BY <2>2, <3>3, <3>4 DEF Told, KnownBut, T!Deciding, T!InFlight
    <3> QED BY <2>3, <3>5 DEF ToldInv
  <2> QED BY <1>10, <2>4, <2>5 DEF T!Receipt
<1>11. CASE UNCHANGED T!vars
  <2>1. \A s \in Students : SameNews(s)
    BY <1>11 DEF T!vars, SameNews
  <2> QED BY <1>8, <1>11, <2>1 DEF T!vars, ToldInv
<1> QED BY <1>2, <1>4, <1>5, <1>6, <1>7, <1>9, <1>10, <1>11, ToldDecision, ToldLetter
        DEF T!Next

(* The inductive invariant of the letters.                                 *)
LetterInv == LetterBase /\ RegretInv /\ ToldInv

(* What is invariant of the letters (services/notifications.py): the       *)
(* requests, the count of the regret letters, and what each student has    *)
(* been told.                                                              *)
THEOREM LetterInductive == ASSUME T!LettersAssumption PROVE T!Spec => []LetterInv
<1>1. T!Init => LetterInv
  BY LetterBaseInit, RegretInit, ToldInit DEF LetterInv
<1>2. LetterInv /\ [T!Next]_T!vars => LetterInv'
  BY LetterBaseStep, RegretStep, ToldStep DEF LetterInv
<1> QED BY <1>1, <1>2, PTL DEF T!Spec

(* Each regret letter that was sent is in regret_email_logs, about to be,  *)
(* or counted as lost with its request (send_regret_email_endpoint).       *)
THEOREM RegretsAreLoggedHolds == ASSUME T!LettersAssumption PROVE T!Spec => []RegretsAreLogged
<1>1. LetterInv => RegretsAreLogged
  BY LetterCounts DEF LetterInv, RegretInv, Accounted, Between, RegretsAreLogged, T!RegretsAreLogged
<1> QED BY <1>1, LetterInductive, PTL

(* What a student was told last is what is on record and every decision on *)
(* record was told him, unless decisions about him overlapped or a request *)
(* died between its commit and its letter.  The receipt of a registration, *)
(* mailed after its commit whatever was decided meanwhile, may come last:  *)
(* then it unsays the decision until the next letter, but never names      *)
(* another one.                                                            *)
THEOREM StudentsKnowTheirReviewHolds ==
  ASSUME T!LettersAssumption PROVE T!Spec => []StudentsKnowTheirReview
<1>1. LetterInv => StudentsKnowTheirReview
  BY DEF LetterInv, ToldInv, Told, KnowsReview, KnowsCategory, StudentsKnowTheirReview, T!StudentsKnowTheirReview
<1> QED BY <1>1, LetterInductive, PTL

-----------------------------------------------------------------------------
(* The questions of a round.                                               *)

(* The requests of a question, what each of them holds, and the row of a   *)
(* question with the one request that may be writing each of its columns.  *)
On(n) == {r \in Q!InFlight : uReq[r].number = n}
QuestionRequest == [number: Numbers \cup {Unset}, given: Q!Contents, loaded: Q!Contents]
QuestionHeld(r) ==
  /\ r \in Q!InFlight => uReq[r].number \in Numbers
  /\ uPc[r] = "update" => rows[uReq[r].number] # <<>>
QuestionBase ==
  /\ rows \in [Numbers -> Seq(Q!Contents)] /\ last \in [Numbers -> Q!Contents]
  /\ uPc \in [Requests -> {"idle", "insert", "update", "done", "failed"}]
  /\ uReq \in [Requests -> QuestionRequest]
  /\ \A r \in Requests : QuestionHeld(r)
FirstSave(n) ==
  rows[n] = <<>> => /\ \A c \in Columns : last[n][c] = Unset
                    /\ \A r, o \in On(n) : r = o /\ uPc[r] = "insert"
ColumnKept(n, c) ==
  /\ rows[n][1][c] = last[n][c]
  /\ \A r \in On(n) : c \in Q!Given(r) =>
       /\ uReq[r].loaded[c] = rows[n][1][c]
       /\ \A o \in On(n) : c \in Q!Given(o) => o = r
LaterSaves(n) ==
  rows[n] # <<>> => /\ Len(rows[n]) = 1 /\ \A r \in On(n) : uPc[r] = "update"
                    /\ \A c \in Columns : <<n, c>> \notin uCrossed => ColumnKept(n, c)
Kept(n) == <<n, Unset>> \notin uCrossed => FirstSave(n) /\ LaterSaves(n)
QuestionInv == QuestionBase /\ \A n \in Numbers : Kept(n)

LEMMA QuestionInitially == Q!Init => QuestionInv
<1> SUFFICES ASSUME Q!Init PROVE QuestionInv
  OBVIOUS
<1>1. Q!Empty \in Q!Contents /\ \A c \in Columns : Q!Empty[c] = Unset
  BY DEF Q!Empty, Q!Contents
<1>2. Q!NoReq \in QuestionRequest
  BY <1>1 DEF Q!NoReq, QuestionRequest
<1>3. QuestionBase
  BY <1>1, <1>2 DEF Q!Init, QuestionBase, QuestionHeld, Q!InFlight
<1>4. \A n \in Numbers : Kept(n)
  BY <1>1 DEF Q!Init, Kept, FirstSave, LaterSaves, On, Q!InFlight
<1> QED BY <1>3, <1>4 DEF QuestionInv

LEMMA QuestionMoves ==
  ASSUME QuestionBase, NEW r \in Requests, NEW q, NEW step,
         uReq' = [uReq EXCEPT ![r] = q], uPc' = [uPc EXCEPT ![r] = step]
  PROVE  /\ uReq'[r] = q /\ uPc'[r] = step
         /\ \A o \in Requests \ {r} : uReq'[o] = uReq[o] /\ uPc'[o] = uPc[o]
                                      /\ (o \in Q!InFlight' <=> o \in Q!InFlight)
<1>1. /\ uReq'[r] = q /\ uPc'[r] = step
      /\ \A o \in Requests \ {r} : uReq'[o] = uReq[o] /\ uPc'[o] = uPc[o]
  BY DEF QuestionBase
<1> QED BY <1>1 DEF Q!InFlight

(* A question to which nothing is written, and on which no request is new. *)
LEMMA QuestionLeftAlone ==
  ASSUME NEW n \in Numbers, Kept(n), uCrossed \subseteq uCrossed', rows'[n] = rows[n],
         last'[n] = last[n], On(n)' \subseteq On(n),
         \A r \in On(n)' : uReq'[r] = uReq[r] /\ uPc'[r] = uPc[r]
  PROVE  Kept(n)'
<1>1. \A r \in On(n)' : Q!Given(r)' = Q!Given(r)
  BY DEF Q!Given
<1>2. \A c : <<n, c>> \notin uCrossed' => <<n, c>> \notin uCrossed
  OBVIOUS
<1>3. FirstSave(n) => FirstSave(n)'
  BY DEF FirstSave
<1>4. \A c \in Columns : ColumnKept(n, c) => ColumnKept(n, c)'
  BY <1>1 DEF ColumnKept
<1>5. LaterSaves(n) => LaterSaves(n)'
  BY <1>2, <1>4 DEF LaterSaves
<1> QED BY <1>2, <1>3, <1>5 DEF Kept

LEMMA OneRow ==
  ASSUME NEW S, NEW s \in Seq(S), Len(s) = 1
  PROVE  s # <<>> /\ s[1] \in S
<1>1. s # <<>>
  OBVIOUS
<1>2. s[1] \in S
  OBVIOUS
<1> QED BY <1>1, <1>2

LEMMA QuestionFind ==
  ASSUME QuestionInv, NEW r \in Requests, Q!Find(r)
  PROVE  QuestionInv'
<1>1. QuestionBase /\ \A n \in Numbers : Kept(n)
  BY DEF QuestionInv
<1>2. PICK n \in Numbers, given \in Q!Contents :
        LET others == {q \in Q!InFlight : uReq[q].number = n}
            stored == rows[n]
        IN /\ CASE stored = <<>>      -> /\ uPc' = [uPc EXCEPT ![r] = "insert"]
                                         /\ uReq' = [uReq EXCEPT ![r] =
                                              [number |-> n, given |-> given, loaded |-> Q!Empty]]
                [] Len(stored) = 1    -> /\ uPc' = [uPc EXCEPT ![r] = "update"]
                                         /\ uReq' = [uReq EXCEPT ![r] =
                                              [number |-> n, given |-> given, loaded |-> stored[1]]]
                [] Len(stored) > 1    -> uPc' = [uPc EXCEPT ![r] = "failed"] /\ UNCHANGED uReq
           /\ uCrossed' = uCrossed
                \cup {<<n, c>> : c \in {d \in UNION {Q!Given(q) : q \in others} : given[d] # Unset}}
                \cup {<<n, Unset>> : q \in {o \in others : stored = <<>>}}
  BY DEF Q!Find
<1>3. uPc[r] = "idle" /\ r \notin Q!InFlight /\ UNCHANGED <<rows, last>>
  BY DEF Q!Find, Q!InFlight
<1>4. /\ uCrossed \subseteq uCrossed'
      /\ \A q \in On(n), c \in Columns :
           c \in Q!Given(q) /\ given[c] # Unset => <<n, c>> \in uCrossed'
      /\ rows[n] = <<>> /\ On(n) # {} => <<n, Unset>> \in uCrossed'
  <2>1. /\ uCrossed \subseteq uCrossed'
        /\ {<<n, c>> : c \in {d \in UNION {Q!Given(q) : q \in On(n)} : given[d] # Unset}}
             \subseteq uCrossed'
        /\ {<<n, Unset>> : q \in {o \in On(n) : rows[n] = <<>>}} \subseteq uCrossed'
    BY <1>2 DEF On
  <2> QED BY <2>1
<1>5. PICK stored \in Seq(Q!Contents), size \in Nat : stored = rows[n] /\ size = Len(stored)
  <2>1. PICK stored \in Seq(Q!Contents) : stored = rows[n]
    BY <1>1 DEF QuestionBase
  <2>2. Len(stored) \in Nat
    BY <2>1
  <2> QED BY <2>1, <2>2
<1>6. ASSUME NEW q \in QuestionRequest, NEW step \in {"insert", "update"},
             uReq' = [uReq EXCEPT ![r] = q], uPc' = [uPc EXCEPT ![r] = step],
             q.number = n, q.given = given, step = "update" <=> rows[n] # <<>>,
             step = "update" => q.loaded = rows[n][1] /\ Len(rows[n]) = 1
      PROVE  QuestionInv'
  <2>1. /\ uReq'[r] = q /\ uPc'[r] = step
        /\ \A o \in Requests \ {r} : uReq'[o] = uReq[o] /\ uPc'[o] = uPc[o]
                                     /\ (o \in Q!InFlight' <=> o \in Q!InFlight)
    BY <1>1, <1>6, QuestionMoves
  <2>2. On(n)' = On(n) \cup {r} /\ r \notin On(n) /\ On(n) \subseteq Requests
    BY <1>3, <1>6, <2>1 DEF On, Q!InFlight
  <2>3. \A m \in Numbers \ {n} : On(m)' = On(m) /\ r \notin On(m) /\ On(m) \subseteq Requests
    BY <1>3, <1>6, <2>1 DEF On, Q!InFlight
  <2>4. \A m \in Numbers \ {n} : Kept(m)'
    BY <1>1, <1>3, <1>4, <2>1, <2>3, QuestionLeftAlone
  <2>5. Q!Given(r)' = {c \in Columns : given[c] # Unset}
        /\ \A o \in On(n) : Q!Given(o)' = Q!Given(o)
    BY <1>6, <2>1, <2>2 DEF Q!Given
  <2>6. ASSUME <<n, Unset>> \notin uCrossed' PROVE FirstSave(n)' /\ LaterSaves(n)'
    <3>1. FirstSave(n) /\ LaterSaves(n)
      BY <1>1, <1>4, <2>6 DEF Kept
    <3>2. CASE rows[n] = <<>>
      <4>1. On(n) = {}
        BY <1>4, <2>6, <3>2
      <4> QED BY <1>3, <1>6, <2>1, <2>2, <3>1, <3>2, <4>1 DEF FirstSave, LaterSaves
    <3>3. CASE rows[n] # <<>>
      <4>1. ASSUME NEW c \in Columns, <<n, c>> \notin uCrossed' PROVE ColumnKept(n, c)'
        <5>1. ColumnKept(n, c)
          BY <1>4, <3>1, <3>3, <4>1 DEF LaterSaves
        <5>2. c \in Q!Given(r)' => \A o \in On(n) : c \notin Q!Given(o)'
          BY <1>4, <2>5, <4>1
        <5>3. \A o \in On(n) : uReq'[o] = uReq[o]
          BY <2>1, <2>2
        <5>4. uReq'[r].loaded[c] = rows[n][1][c]
          BY <1>6, <2>1, <3>3
        <5>5. rows'[n][1][c] = rows[n][1][c] /\ last'[n][c] = last[n][c]
          BY <1>3
        <5> QED BY <2>2, <2>5, <5>1, <5>2, <5>3, <5>4, <5>5 DEF ColumnKept
      <4>2. \A o \in On(n)' : uPc'[o] = "update"
        BY <1>6, <2>1, <2>2, <3>1, <3>3 DEF LaterSaves
      <4> QED BY <1>3, <1>6, <3>3, <4>1, <4>2 DEF FirstSave, LaterSaves
    <3> QED BY <3>2, <3>3
  <2>7. QuestionBase'
    <3>1. uReq' \in [Requests -> QuestionRequest]
      BY <1>1, <1>6 DEF QuestionBase
    <3>2. QuestionHeld(r)'
      BY <1>3, <1>6, <2>1 DEF QuestionHeld
    <3>3. \A o \in Requests \ {r} : QuestionHeld(o)'
      BY <1>1, <1>3, <2>1 DEF QuestionHeld, QuestionBase
    <3> QED BY <1>1, <1>3, <1>6, <3>1, <3>2, <3>3 DEF QuestionBase
  <2>8. Kept(n)'
    BY <2>6 DEF Kept
  <2> QED BY <2>4, <2>7, <2>8 DEF QuestionInv
<1>7. CASE rows[n] = <<>>
  <2>1. Q!Empty \in Q!Contents
    BY DEF Q!Empty, Q!Contents
  <2>2. PICK q : q = [number |-> n, given |-> given, loaded |-> Q!Empty]
    OBVIOUS
  <2>3. q \in QuestionRequest /\ q.number = n /\ q.given = given
    BY <2>1, <2>2 DEF QuestionRequest
  <2>4. uReq' = [uReq EXCEPT ![r] = q] /\ uPc' = [uPc EXCEPT ![r] = "insert"]
    BY <1>2, <1>7, <2>2
  <2> QED BY <1>6, <1>7, <2>3, <2>4
<1>8. CASE Len(rows[n]) = 1
  <2>0. Len(stored) = 1
    BY <1>5, <1>8
  <2>1. rows[n][1] \in Q!Contents /\ rows[n] # <<>>
    <3>1. stored # <<>> /\ stored[1] \in Q!Contents
      BY <2>0, OneRow
    <3> QED BY <1>5, <3>1
  <2>2. PICK q : q = [number |-> n, given |-> given, loaded |-> rows[n][1]]
    OBVIOUS
  <2>3. q \in QuestionRequest /\ q.number = n /\ q.given = given /\ q.loaded = rows[n][1]
    BY <2>1, <2>2 DEF QuestionRequest
  <2>4. uReq' = [uReq EXCEPT ![r] = q] /\ uPc' = [uPc EXCEPT ![r] = "update"]
    BY <1>2, <1>8, <2>1, <2>2
  <2> QED BY <1>6, <1>8, <2>1, <2>3, <2>4
<1>9. CASE Len(rows[n]) > 1
  <2>1. uPc' = [uPc EXCEPT ![r] = "failed"] /\ uReq' = [uReq EXCEPT ![r] = uReq[r]]
    <3>1. rows[n] # <<>> /\ Len(rows[n]) # 1
      <4>1. size > 1 /\ Len(stored) > 1
        BY <1>5, <1>9
      <4>2. stored # <<>> /\ size # 1
        BY <4>1
      <4> QED BY <1>5, <4>2
    <3> QED BY <1>1, <1>2, <1>9, <3>1 DEF QuestionBase
  <2>2. /\ uReq' = uReq /\ uPc'[r] = "failed"
        /\ \A o \in Requests \ {r} : uPc'[o] = uPc[o] /\ (o \in Q!InFlight' <=> o \in Q!InFlight)
    BY <1>1, <2>1, QuestionMoves DEF QuestionBase
  <2>3. r \notin Q!InFlight' /\ Q!InFlight' \subseteq Requests
    BY <2>2 DEF Q!InFlight
  <2>4. \A m \in Numbers : On(m)' \subseteq On(m) /\ \A o \in On(m)' : o \in Requests \ {r}
    BY <2>2, <2>3 DEF On
  <2>5. \A m \in Numbers : Kept(m)'
    BY <1>1, <1>3, <1>4, <2>2, <2>4, QuestionLeftAlone
  <2>6. \A o \in Requests : QuestionHeld(o)'
    BY <1>1, <1>3, <2>2, <2>3 DEF QuestionHeld, QuestionBase
  <2> QED BY <1>1, <1>3, <2>1, <2>2, <2>5, <2>6 DEF QuestionInv, QuestionBase
<1>10. rows[n] = <<>> \/ size = 1 \/ size > 1
  <2>1. size = 0 \/ size = 1 \/ size > 1
    OBVIOUS
  <2>2. size = 0 => stored = <<>>
    <3>1. ASSUME Len(stored) = 0 PROVE stored = <<>>
      BY <3>1
    <3> QED BY <1>5, <3>1
  <2> QED BY <1>5, <2>1, <2>2
<1> QED BY <1>5, <1>7, <1>8, <1>9, <1>10

(* What an update leaves in the row it has found.                          *)
LEMMA RowReplaced ==
  ASSUME NEW S, NEW s \in Seq(S), s # <<>>, NEW e \in S
  PROVE  /\ [s EXCEPT ![1] = e] \in Seq(S) /\ [s EXCEPT ![1] = e][1] = e
         /\ [s EXCEPT ![1] = e] # <<>> /\ Len([s EXCEPT ![1] = e]) = Len(s)
<1>1. PICK k \in Nat : k = Len(s) /\ k >= 1
  OBVIOUS
<1>2. PICK t : t = [s EXCEPT ![1] = e]
  OBVIOUS
<1>3. t \in Seq(S) /\ Len(t) = Len(s)
  BY <1>1, <1>2
<1>4. t[1] = e
  BY <1>1, <1>2
<1>5. t # <<>>
  <2>1. Len(t) >= 1 /\ Len(<<>>) = 0
    BY <1>1, <1>3
  <2> QED BY <2>1
<1> QED BY <1>2, <1>3, <1>4, <1>5

LEMMA QuestionSaved ==
  ASSUME NEW q \in QuestionRequest, NEW row \in Q!Contents
  PROVE  Q!Saved(q, row) \in Q!Contents
BY DEF QuestionRequest, Q!Saved, Q!Contents

LEMMA QuestionEnds ==
  ASSUME QuestionBase, NEW r \in Q!InFlight, NEW step \in {"done", "failed"},
         uPc' = [uPc EXCEPT ![r] = step], uReq' = [uReq EXCEPT ![r] = Q!NoReq]
  PROVE  /\ uReq' \in [Requests -> QuestionRequest]
         /\ uPc' \in [Requests -> {"idle", "insert", "update", "done", "failed"}]
         /\ \A n : On(n)' = On(n) \ {r} /\ On(n) \subseteq Requests
         /\ \A o \in Requests \ {r} : uReq'[o] = uReq[o] /\ uPc'[o] = uPc[o]
         /\ r \notin Q!InFlight' /\ uPc'[r] # "update" /\ r \in Requests
         /\ \A o \in Requests \ {r} : o \in Q!InFlight' <=> o \in Q!InFlight
<1>1. r \in Requests
  BY DEF Q!InFlight
<1>2. Q!NoReq \in QuestionRequest
  BY DEF Q!NoReq, Q!Empty, Q!Contents, QuestionRequest
<1>3. /\ uReq'[r] = Q!NoReq /\ uPc'[r] = step
      /\ \A o \in Requests \ {r} : uReq'[o] = uReq[o] /\ uPc'[o] = uPc[o]
                                   /\ (o \in Q!InFlight' <=> o \in Q!InFlight)
  BY <1>1, QuestionMoves
<1>4. r \notin Q!InFlight'
  BY <1>3 DEF Q!InFlight
<1>5. \A n : On(n) \subseteq Requests /\ On(n)' \subseteq Requests
  BY DEF On, Q!InFlight
<1>6. \A n : On(n)' = On(n) \ {r}
  BY <1>3, <1>4, <1>5 DEF On
<1> QED BY <1>1, <1>2, <1>3, <1>4, <1>5, <1>6 DEF QuestionBase

LEMMA QuestionSave ==
  ASSUME QuestionInv, NEW r \in Requests, Q!Save(r)
  PROVE  QuestionInv'
<1>1. QuestionBase /\ \A n \in Numbers : Kept(n)
  BY DEF QuestionInv
<1>2. PICK q \in QuestionRequest : q = uReq[r]
  BY <1>1 DEF QuestionBase
<1>3. r \in Q!InFlight
  BY DEF Q!Save
<1>4. PICK n \in Numbers : n = q.number
  BY <1>1, <1>2, <1>3 DEF QuestionBase, QuestionHeld
<1>5. uPc' = [uPc EXCEPT ![r] = "done"] /\ uReq' = [uReq EXCEPT ![r] = Q!NoReq]
      /\ UNCHANGED uCrossed
  BY DEF Q!Save
<1>6. /\ uReq' \in [Requests -> QuestionRequest]
      /\ uPc' \in [Requests -> {"idle", "insert", "update", "done", "failed"}]
      /\ \A m : On(m)' = On(m) \ {r} /\ On(m) \subseteq Requests
      /\ \A o \in Requests \ {r} : uReq'[o] = uReq[o] /\ uPc'[o] = uPc[o]
      /\ r \notin Q!InFlight' /\ uPc'[r] # "update"
      /\ \A o \in Requests \ {r} : o \in Q!InFlight' <=> o \in Q!InFlight
  BY <1>1, <1>3, <1>5, QuestionEnds
<1>7. r \in On(n)
  BY <1>2, <1>3, <1>4 DEF On
<1>8. q.given \in Q!Contents /\ q.loaded \in Q!Contents
  BY <1>2 DEF QuestionRequest
<1>9. PICK stored \in Seq(Q!Contents) : stored = rows[n]
  BY <1>1 DEF QuestionBase
<1>10. PICK next :
         next = IF uPc[r] = "insert" THEN Append(stored, q.given)
                ELSE [stored EXCEPT ![1] = Q!Saved(q, stored[1])]
  OBVIOUS
<1>11. rows' = [rows EXCEPT ![n] = next]
  BY <1>2, <1>4, <1>9, <1>10 DEF Q!Save
<1>12. uPc[r] = "update" => stored # <<>>
  BY <1>1, <1>2, <1>4, <1>9 DEF QuestionBase, QuestionHeld
<1>13. next \in Seq(Q!Contents) /\ next # <<>>
  <2>1. CASE uPc[r] = "insert"
    BY <1>8, <1>10, <2>1
  <2>2. CASE uPc[r] = "update"
    <3>1. stored # <<>> /\ stored[1] \in Q!Contents
      <4>1. Len(stored) >= 1
        BY <1>12, <2>2
      <4> QED BY <1>12, <2>2, <4>1
    <3>2. Q!Saved(q, stored[1]) \in Q!Contents
      BY <3>1, QuestionSaved
    <3> QED BY <1>10, <2>2, <3>1, <3>2, RowReplaced
  <2> QED BY <1>3, <2>1, <2>2 DEF Q!InFlight
<1>14. PICK kept : kept = [c \in Columns |-> IF c \in Q!Given(r) THEN q.given[c] ELSE last[n][c]]
  OBVIOUS
<1>15. last' = [last EXCEPT ![n] = kept] /\ kept \in Q!Contents
  BY <1>1, <1>2, <1>4, <1>8, <1>14 DEF Q!Save, QuestionBase, Q!Contents
<1>16. /\ rows' \in [Numbers -> Seq(Q!Contents)] /\ last' \in [Numbers -> Q!Contents]
       /\ rows'[n] = next /\ last'[n] = kept
       /\ \A m \in Numbers \ {n} : rows'[m] = rows[m] /\ last'[m] = last[m]
  BY <1>1, <1>11, <1>13, <1>15 DEF QuestionBase
<1>17. QuestionBase'
  <2>1. \A o \in Requests \ {r} : QuestionHeld(o)'
    BY <1>1, <1>6, <1>13, <1>16 DEF QuestionBase, QuestionHeld, Q!InFlight
  <2>2. QuestionHeld(r)'
    BY <1>6 DEF QuestionHeld
  <2> QED BY <1>6, <1>16, <2>1, <2>2 DEF QuestionBase
<1>18. ASSUME NEW m \in Numbers \ {n} PROVE Kept(m)'
  <2>1. r \notin On(m)
    BY <1>2, <1>4, <1>18 DEF On
  <2>2. On(m)' \subseteq On(m) /\ \A o \in On(m)' : o \in Requests \ {r}
    BY <1>6, <2>1
  <2> QED BY <1>1, <1>5, <1>6, <1>16, <1>18, <2>2, QuestionLeftAlone
<1>19. Q!Given(r) = {c \in Columns : q.given[c] # Unset}
  BY <1>2 DEF Q!Given
<1>20. ASSUME <<n, Unset>> \notin uCrossed' PROVE FirstSave(n)' /\ LaterSaves(n)'
  <2>1. FirstSave(n) /\ LaterSaves(n)
    BY <1>1, <1>5, <1>20 DEF Kept
  <2>2. FirstSave(n)'
    BY <1>13, <1>16 DEF FirstSave
  <2>3. CASE stored = <<>>
    <3>1. uPc[r] = "insert" /\ On(n)' = {} /\ \A c \in Columns : last[n][c] = Unset
      BY <1>6, <1>7, <1>9, <2>1, <2>3 DEF FirstSave
    <3>2. next = <<q.given>>
      BY <1>8, <1>10, <2>3, <3>1
    <3>3. Len(next) = 1 /\ next[1] = q.given
      BY <3>2
    <3>4. \A c \in Columns : q.given[c] = kept[c]
      BY <1>14, <1>19, <3>1
    <3>5. \A c \in Columns : ColumnKept(n, c)'
      BY <1>16, <3>1, <3>3, <3>4 DEF ColumnKept
    <3>6. LaterSaves(n)'
      BY <1>16, <3>1, <3>3, <3>5 DEF LaterSaves
    <3> QED BY <2>2, <3>6
  <2>4. CASE stored # <<>>
    <3>1. /\ Len(stored) = 1 /\ \A o \in On(n) : uPc[o] = "update"
          /\ \A c \in Columns : <<n, c>> \notin uCrossed => ColumnKept(n, c)
      BY <1>9, <2>1, <2>4 DEF LaterSaves
    <3>2. stored[1] \in Q!Contents
      BY <3>1, OneRow
    <3>3. PICK row : row = Q!Saved(q, stored[1])
      OBVIOUS
    <3>4. row \in Q!Contents
      BY <3>2, <3>3, QuestionSaved
    <3>5. next = [stored EXCEPT ![1] = row]
      BY <1>7, <1>10, <3>1, <3>3
    <3>6. Len(next) = 1 /\ next[1] = row
      BY <2>4, <3>1, <3>4, <3>5, RowReplaced
    <3>7. ASSUME NEW c \in Columns, <<n, c>> \notin uCrossed' PROVE ColumnKept(n, c)'
      <4>1. ColumnKept(n, c)
        BY <1>5, <3>1, <3>7
      <4>2. row[c] = IF q.given[c] \in {Unset, q.loaded[c]} THEN stored[1][c] ELSE q.given[c]
        BY <3>3 DEF Q!Saved
      <4>3. kept[c] = IF q.given[c] # Unset THEN q.given[c] ELSE last[n][c]
        BY <1>14, <1>19
      <4>4. stored[1][c] = last[n][c]
        BY <1>9, <4>1 DEF ColumnKept
      <4>5. q.given[c] # Unset => q.loaded[c] = stored[1][c]
        BY <1>2, <1>7, <1>9, <1>19, <4>1 DEF ColumnKept
      <4>6. row[c] = kept[c]
        BY <4>2, <4>3, <4>4, <4>5
      <4>7. ASSUME NEW o \in On(n)', c \in Q!Given(o)'
            PROVE  uReq'[o].loaded[c] = row[c] /\ \A p \in On(n)' : c \in Q!Given(p)' => p = o
        <5>1. o \in On(n) /\ o # r /\ o \in Requests
          BY <1>6
        <5>2. \A p \in On(n)' : p \in On(n) /\ Q!Given(p)' = Q!Given(p)
          BY <1>6 DEF Q!Given
        <5>3. c \in Q!Given(o)
          BY <4>7, <5>2
        <5>4. c \notin Q!Given(r)
          BY <1>7, <4>1, <5>1, <5>3 DEF ColumnKept
        <5>5. row[c] = stored[1][c]
          BY <1>19, <4>2, <5>4
        <5>6. uReq'[o].loaded[c] = stored[1][c]
          BY <1>6, <1>9, <4>1, <5>1, <5>3 DEF ColumnKept
        <5>7. \A p \in On(n) : c \in Q!Given(p) => p = o
          BY <4>1, <5>1, <5>3 DEF ColumnKept
        <5> QED BY <5>2, <5>5, <5>6, <5>7
      <4> QED BY <1>16, <3>6, <4>6, <4>7 DEF ColumnKept
    <3>8. \A o \in On(n)' : uPc'[o] = "update"
      BY <1>6, <3>1
    <3>9. LaterSaves(n)'
      BY <1>16, <3>6, <3>7, <3>8 DEF LaterSaves
    <3> QED BY <2>2, <3>9
  <2> QED BY <2>3, <2>4
<1>21. Kept(n)'
  BY <1>20 DEF Kept
<1> QED BY <1>17, <1>18, <1>21 DEF QuestionInv

LEMMA QuestionFail ==
  ASSUME QuestionInv, NEW r \in Requests, Q!Fail(r)
  PROVE  QuestionInv'
<1>1. QuestionBase /\ \A n \in Numbers : Kept(n)
  BY DEF QuestionInv
<1>2. /\ r \in Q!InFlight /\ UNCHANGED <<rows, last, uCrossed>>
      /\ uPc' = [uPc EXCEPT ![r] = "failed"] /\ uReq' = [uReq EXCEPT ![r] = Q!NoReq]
  BY DEF Q!Fail
<1>3. /\ uReq' \in [Requests -> QuestionRequest]
      /\ uPc' \in [Requests -> {"idle", "insert", "update", "done", "failed"}]
      /\ \A m : On(m)' = On(m) \ {r} /\ On(m) \subseteq Requests
      /\ \A o \in Requests \ {r} : uReq'[o] = uReq[o] /\ uPc'[o] = uPc[o]
      /\ r \notin Q!InFlight' /\ uPc'[r] # "update"
      /\ \A o \in Requests \ {r} : o \in Q!InFlight' <=> o \in Q!InFlight
  BY <1>1, <1>2, QuestionEnds
<1>4. QuestionHeld(r)'
  BY <1>3 DEF QuestionHeld
<1>5. \A o \in Requests \ {r} : QuestionHeld(o)'
  BY <1>1, <1>2, <1>3 DEF QuestionBase, QuestionHeld
<1>6. QuestionBase'
  BY <1>1, <1>2, <1>3, <1>4, <1>5 DEF QuestionBase
<1>7. ASSUME NEW n \in Numbers PROVE Kept(n)'
  <2>1. On(n)' \subseteq On(n) /\ \A o \in On(n)' : o \in Requests \ {r}
    BY <1>3
  <2> QED BY <1>1, <1>2, <1>3, <2>1, QuestionLeftAlone
<1> QED BY <1>6, <1>7 DEF QuestionInv

LEMMA QuestionStutters == ASSUME QuestionInv, UNCHANGED Q!vars PROVE QuestionInv'
<1>1. QuestionBase'
  BY DEF QuestionInv, QuestionBase, QuestionHeld, Q!InFlight, Q!vars
<1>2. ASSUME NEW n \in Numbers PROVE Kept(n)'
  <2>1. On(n)' = On(n)
    BY DEF On, Q!InFlight, Q!vars
  <2> QED BY <2>1, QuestionLeftAlone DEF QuestionInv, Q!vars
<1> QED BY <1>1, <1>2 DEF QuestionInv

(* What is invariant of the questions (upsert_round_question): one row for *)
(* each, which holds what was saved last in every column that no two       *)
(* requests wrote at a time.                                               *)
THEOREM QuestionInductive == Q!Spec => []QuestionInv
<1>1. QuestionInv /\ [Q!Next]_Q!vars => QuestionInv'
  BY QuestionFind, QuestionSave, QuestionFail, QuestionStutters DEF Q!Next
<1> QED BY <1>1, QuestionInitially, PTL DEF Q!Spec

(* A question keeps one row, unless two first saves of it overlapped, and  *)
(* in it each column the value saved last, unless two saves of the column  *)
(* overlapped: an UPDATE writes only the columns that its request has      *)
(* changed.                                                                *)
THEOREM SavedColumnsAreKeptHolds == Q!Spec => []SavedColumnsAreKept
<1>1. QuestionInv => SavedColumnsAreKept
  <2> SUFFICES ASSUME QuestionInv, NEW n \in Numbers, <<n, Unset>> \notin uCrossed
               PROVE  /\ Len(rows[n]) <= 1
                      /\ \A row \in Q!Listed(n), c \in Columns :
                           <<n, c>> \in uCrossed \/ row[c] = last[n][c]
    BY DEF SavedColumnsAreKept, Q!SavedColumnsAreKept
  <2>1. LaterSaves(n) /\ rows[n] \in Seq(Q!Contents)
    BY DEF QuestionInv, Kept, QuestionBase
  <2>2. CASE rows[n] = <<>>
    <3>1. Len(rows[n]) = 0
      BY <2>2
    <3>2. Q!Listed(n) = {}
      BY <2>2 DEF Q!Listed, Q!ToSet
    <3> QED BY <3>1, <3>2
  <2>3. CASE rows[n] # <<>>
    <3>1. Len(rows[n]) = 1
      BY <2>1, <2>3 DEF LaterSaves
    <3>2. Q!Listed(n) = {rows[n][1]}
      BY <2>1, <3>1 DEF Q!Listed, Q!ToSet
    <3>3. \A c \in Columns : <<n, c>> \notin uCrossed => rows[n][1][c] = last[n][c]
      BY <2>1, <2>3 DEF LaterSaves, ColumnKept
    <3> QED BY <3>1, <3>2, <3>3
  <2> QED BY <2>2, <2>3
<1> QED BY <1>1, QuestionInductive, PTL

-----------------------------------------------------------------------------
(* The documents: the object in the bucket, then the key in the row.       *)

(* The key that the uploads of an owner get under one of his names.        *)
Made(o, n, c, f) ==
  [folder |-> IF o \in Pupils THEN <<"students", Stem[n] \o Digits[NationalId[o]]>>
              ELSE <<"institutions", Clean[n]>>,
   column |-> c, file |-> f]
MadeFor(k, o, c) == \E n \in named[o], f \in Files : k = Made(o, n, c, f)
Stored(k) == \E b \in bucket : b.key = k
Uploads(o, c) == {r \in D!InFlight : D!At(r) = <<o, c>>}
PerOwnColumn(f) == f = [o \in D!Owners |-> [c \in ColumnsOf[o] |-> f[o][c]]]

FileHeld(b) ==
  /\ b.owner \in D!Owners /\ b.by \in Requests
  /\ \E c \in ColumnsOf[b.owner] : MadeFor(b.key, b.owner, c)
UploadHeld(r) ==
  /\ dReq[r].owner \in D!Owners /\ dReq[r].column \in ColumnsOf[dReq[r].owner]
  /\ MadeFor(dReq[r].key, dReq[r].owner, dReq[r].column)
  /\ dPc[r] = "record" => Stored(dReq[r].key)
Uploaded(o, c) == column[o][c] # None /\ <<o, c>> \notin supplied
KeyHeld(o, c) == Uploaded(o, c) => MadeFor(column[o][c], o, c) /\ Stored(column[o][c])
DocumentBase ==
  /\ name \in [D!Owners -> Names] /\ named \in [D!Owners -> SUBSET Names]
  /\ \A o \in D!Owners : name[o] \in named[o]
  /\ dPc \in [Requests -> {"idle", "put", "record", "ended"}]
  /\ dReq = [r \in Requests |-> dReq[r]]
  /\ PerOwnColumn(column) /\ PerOwnColumn(latest)
  /\ \A b \in bucket : FileHeld(b)
  /\ \A b, d \in bucket : b.key = d.key => b = d
  /\ \A r \in D!InFlight : UploadHeld(r)
  /\ \A o \in D!Owners : \A c \in ColumnsOf[o] : KeyHeld(o, c)

(* An owner whose files are apart, and a column whose uploads were.        *)
Undisturbed(o, c) ==
  /\ \A r \in Uploads(o, c) :
       /\ dReq[r].loaded = column[o][c] \/ <<o, c>> \in supplied
       /\ Uploads(o, c) = {r}
       /\ dPc[r] = "record" => \A b \in bucket : b.key = dReq[r].key => b.by = r
  /\ Uploaded(o, c) =>
       \A b \in bucket : b.key = column[o][c] =>
         b.by = latest[o][c] \/ (b.by \in Uploads(o, c) /\ dPc[b.by] = "record")
Answered(o, c) == D!Apart(o) /\ <<o, c>> \notin torn => Undisturbed(o, c)
DocumentInv ==
  DocumentBase /\ \A o \in D!Owners : \A c \in ColumnsOf[o] : Answered(o, c)

LEMMA KeyIsMade ==
  ASSUME NEW o, NEW c, NEW f PROVE D!KeyFor(o, c, f) = Made(o, name[o], c, f)
BY DEF D!KeyFor, D!StudentFolder, D!InstitutionFolder, Made

LEMMA OneMaker ==
  ASSUME D!DocumentsAssumption, NEW o \in D!Owners, NEW p \in D!Owners, D!Apart(o),
         NEW k, NEW c, NEW d, MadeFor(k, o, c), MadeFor(k, p, d)
  PROVE  p = o /\ d = c
<1>1. PICK n \in named[o], f \in Files : k = Made(o, n, c, f)
  BY DEF MadeFor
<1>2. PICK m \in named[p], g \in Files : k = Made(p, m, d, g)
  BY DEF MadeFor
<1>3. d = c
  BY <1>1, <1>2 DEF Made
<1>4. CASE o \in Pupils /\ p \in Pupils
  <2> DEFINE words == Stem[n] \o Digits[NationalId[o]]
             others == Stem[m] \o Digits[NationalId[p]]
  <2>1. words = others
    <3>1. Made(o, n, c, f).folder = <<"students", words>>
          /\ Made(p, m, d, g).folder = <<"students", others>>
      BY <1>4 DEF Made
    <3>2. <<"students", words>> = <<"students", others>>
      BY <1>1, <1>2, <3>1
    <3> HIDE DEF words, others
    <3> QED BY <3>2
  <2>2. \A s \in Pupils \ {o} : \A x \in named[o], y \in named[s] :
          Stem[x] \o Digits[NationalId[o]] # Stem[y] \o Digits[NationalId[s]]
    BY <1>4 DEF D!Apart, D!DocumentsAssumption
  <2> QED BY <1>3, <1>4, <2>1, <2>2
<1>5. CASE o \notin Pupils /\ p \notin Pupils
  <2>1. Clean[n] = Clean[m]
    BY <1>1, <1>2, <1>5 DEF Made
  <2>2. p \in Schools /\ \A t \in Schools \ {o} : \A x \in named[o], y \in named[t] :
                           Clean[x] # Clean[y]
    BY <1>5 DEF D!Apart, D!Owners
  <2> QED BY <1>3, <2>1, <2>2
<1>6. CASE o \in Pupils /\ p \notin Pupils
  <2>1. k.folder = <<"students", Stem[n] \o Digits[NationalId[o]]>>
    BY <1>1, <1>6 DEF Made
  <2>2. k.folder = <<"institutions", Clean[m]>>
    BY <1>2, <1>6 DEF Made
  <2>3. "students" # "institutions"
    OBVIOUS
  <2> QED BY <2>1, <2>2, <2>3
<1>7. CASE o \notin Pupils /\ p \in Pupils
  <2>1. k.folder = <<"students", Stem[m] \o Digits[NationalId[p]]>>
    BY <1>2, <1>7 DEF Made
  <2>2. k.folder = <<"institutions", Clean[n]>>
    BY <1>1, <1>7 DEF Made
  <2>3. "students" # "institutions"
    OBVIOUS
  <2> QED BY <2>1, <2>2, <2>3
<1> QED BY <1>4, <1>5, <1>6, <1>7

(* One column is set, the others keep their key.                           *)
SetTo(f, o, c, v) == [f EXCEPT ![o][c] = v]
LEMMA ColumnSet ==
  ASSUME NEW f, PerOwnColumn(f), NEW o \in D!Owners, NEW c \in ColumnsOf[o], NEW v,
         NEW g, g = SetTo(f, o, c, v)
  PROVE  /\ PerOwnColumn(g) /\ g[o][c] = v
         /\ \A p \in D!Owners : \A d \in ColumnsOf[p] : <<p, d>> # <<o, c>> => g[p][d] = f[p][d]
<1>1. PICK row : row = [f[o] EXCEPT ![c] = v]
  OBVIOUS
<1>2. f[o] = [d \in ColumnsOf[o] |-> f[o][d]]
  BY DEF PerOwnColumn
<1>3. row = [d \in ColumnsOf[o] |-> IF d = c THEN v ELSE f[o][d]]
  BY <1>1, <1>2
<1>4. g = [p \in D!Owners |-> IF p = o THEN row ELSE f[p]]
  BY <1>1 DEF PerOwnColumn, SetTo
<1>5. g[o] = row /\ \A p \in D!Owners \ {o} : g[p] = f[p]
  BY <1>4
<1>6. g[o][c] = v /\ \A d \in ColumnsOf[o] \ {c} : g[o][d] = f[o][d]
  BY <1>3, <1>5
<1>7. ASSUME NEW p \in D!Owners PROVE g[p] = [d \in ColumnsOf[p] |-> g[p][d]]
  <2>1. CASE p = o
    BY <1>3, <1>5, <2>1
  <2>2. CASE p # o
    <3>1. f[p] = [d \in ColumnsOf[p] |-> f[p][d]]
      BY DEF PerOwnColumn
    <3> QED BY <1>5, <2>2, <3>1
  <2> QED BY <2>1, <2>2
<1>8. PerOwnColumn(g)
  BY <1>4, <1>7 DEF PerOwnColumn
<1> QED BY <1>5, <1>6, <1>8

LEMMA DocumentInitially == D!DocumentsAssumption /\ D!Init => DocumentInv
<1> SUFFICES ASSUME D!DocumentsAssumption, D!Init PROVE DocumentInv
  OBVIOUS
<1>1. \A v : PerOwnColumn(D!PerColumn(v))
         /\ \A o \in D!Owners : \A c \in ColumnsOf[o] : D!PerColumn(v)[o][c] = v
  BY DEF PerOwnColumn, D!PerColumn
<1>2. D!InFlight = {} /\ bucket = {}
  BY DEF D!Init, D!InFlight
<1>3. PICK posted \in [D!Slots -> Texts \cup {None}] :
        /\ column = [o \in D!Owners |-> [c \in ColumnsOf[o] |-> posted[<<o, c>>]]]
        /\ supplied = {slot \in D!Slots : posted[slot] # None}
  BY DEF D!Init
<1>4. PerOwnColumn(column)
  <2>1. \A o \in D!Owners : column[o] = [c \in ColumnsOf[o] |-> posted[<<o, c>>]]
    BY <1>3
  <2>2. \A o \in D!Owners : column[o] = [c \in ColumnsOf[o] |-> column[o][c]]
    BY <2>1
  <2> QED BY <1>3, <2>2 DEF PerOwnColumn
<1>5. ASSUME NEW o \in D!Owners, NEW c \in ColumnsOf[o] PROVE ~Uploaded(o, c)
  <2>1. <<o, c>> \in D!Slots
    BY <1>5 DEF D!Slots
  <2>2. column[o][c] = posted[<<o, c>>]
    BY <1>3, <1>5
  <2> QED BY <1>3, <2>1, <2>2 DEF Uploaded
<1>6. DocumentBase
  BY <1>1, <1>2, <1>4, <1>5 DEF D!Init, DocumentBase, KeyHeld
<1>7. \A o \in D!Owners : \A c \in ColumnsOf[o] : Answered(o, c)
  BY <1>2, <1>5 DEF Answered, Undisturbed, Uploads
<1> QED BY <1>6, <1>7 DEF DocumentInv

LEMMA DocumentMoves ==
  ASSUME DocumentBase, NEW r \in Requests, NEW q, NEW step,
         dReq' = [dReq EXCEPT ![r] = q], dPc' = [dPc EXCEPT ![r] = step]
  PROVE  /\ dReq'[r] = q /\ dPc'[r] = step /\ dReq' = [o \in Requests |-> dReq'[o]]
         /\ \A o \in Requests \ {r} :
              /\ dReq'[o] = dReq[o] /\ dPc'[o] = dPc[o]
              /\ (o \in D!InFlight' <=> o \in D!InFlight)
              /\ D!At(o)' = D!At(o)
         /\ \A o, c : /\ Uploads(o, c) \subseteq Requests /\ Uploads(o, c)' \subseteq Requests
                      /\ Uploads(o, c)' \ {r} = Uploads(o, c) \ {r}
<1>1. /\ dReq'[r] = q /\ dPc'[r] = step /\ dReq' = [o \in Requests |-> dReq'[o]]
      /\ \A o \in Requests \ {r} : dReq'[o] = dReq[o] /\ dPc'[o] = dPc[o]
  BY DEF DocumentBase
<1>2. \A o \in Requests \ {r} : /\ o \in D!InFlight' <=> o \in D!InFlight
                                /\ D!At(o)' = D!At(o)
  BY <1>1 DEF D!InFlight, D!At
<1>3. \A o, c : Uploads(o, c) \subseteq Requests /\ Uploads(o, c)' \subseteq Requests
  BY DEF Uploads, D!InFlight
<1>4. \A o, c : Uploads(o, c)' \ {r} = Uploads(o, c) \ {r}
  BY <1>2, <1>3 DEF Uploads
<1> QED BY <1>1, <1>2, <1>3, <1>4

LEMMA StillMade ==
  ASSUME NEW o, named[o] \subseteq named'[o], NEW k, NEW c, MadeFor(k, o, c)
  PROVE  MadeFor(k, o, c)'
BY DEF MadeFor, Made

LEMMA WasApart ==
  ASSUME NEW o \in D!Owners, \A p \in D!Owners : named[p] \subseteq named'[p], D!Apart(o)'
  PROVE  D!Apart(o)
BY DEF D!Apart, D!Owners

(* A column to which a step writes nothing: whoever has put its file is    *)
(* still there, and nobody new is uploading to it.                         *)
LEMMA DocumentLeftAlone ==
  ASSUME DocumentInv, NEW o \in D!Owners, NEW c \in ColumnsOf[o],
         \A p \in D!Owners : named[p] \subseteq named'[p], torn \subseteq torn',
         column'[o][c] = column[o][c], latest'[o][c] = latest[o][c],
         <<o, c>> \in supplied' <=> <<o, c>> \in supplied,
         Uploads(o, c)' \subseteq Uploads(o, c),
         \A r \in Uploads(o, c) : dPc[r] = "record" => r \in Uploads(o, c)',
         \A r \in Uploads(o, c)' : dReq'[r] = dReq[r] /\ dPc'[r] = dPc[r],
         D!Apart(o) => \A r \in Uploads(o, c), b \in bucket' :
                         dPc[r] = "record" /\ b.key = dReq[r].key => b \in bucket,
         D!Apart(o) /\ Uploaded(o, c) =>
           \A b \in bucket' : b.key = column[o][c] => b \in bucket
  PROVE  Answered(o, c)'
<1> SUFFICES ASSUME D!Apart(o)', <<o, c>> \notin torn' PROVE Undisturbed(o, c)'
  BY DEF Answered
<1>1. D!Apart(o) /\ <<o, c>> \notin torn
  BY WasApart
<1>2. Undisturbed(o, c)
  BY <1>1 DEF DocumentInv, Answered
<1>3. ASSUME NEW r \in Uploads(o, c)'
      PROVE  /\ dReq'[r].loaded = column'[o][c] \/ <<o, c>> \in supplied'
             /\ Uploads(o, c)' = {r}
             /\ dPc'[r] = "record" => \A b \in bucket' : b.key = dReq'[r].key => b.by = r
  <2>1. r \in Uploads(o, c) /\ dReq'[r] = dReq[r] /\ dPc'[r] = dPc[r]
    BY <1>3
  <2>2. (dReq[r].loaded = column[o][c] \/ <<o, c>> \in supplied) /\ Uploads(o, c) = {r}
    BY <1>2, <2>1 DEF Undisturbed
  <2>3. Uploads(o, c)' = {r}
    BY <1>3, <2>2
  <2>4. ASSUME dPc[r] = "record", NEW b \in bucket', b.key = dReq[r].key PROVE b.by = r
    <3>1. b \in bucket
      BY <1>1, <2>1, <2>4
    <3> QED BY <1>2, <2>1, <2>4, <3>1 DEF Undisturbed
  <2> QED BY <2>1, <2>2, <2>3, <2>4
<1>4. ASSUME Uploaded(o, c)', NEW b \in bucket', b.key = column'[o][c]
      PROVE  b.by = latest'[o][c] \/ (b.by \in Uploads(o, c)' /\ dPc'[b.by] = "record")
  <2>0. Uploaded(o, c)
    BY <1>4 DEF Uploaded
  <2>1. b \in bucket
    BY <1>1, <1>4, <2>0
  <2>2. b.by = latest[o][c] \/ (b.by \in Uploads(o, c) /\ dPc[b.by] = "record")
    BY <1>2, <1>4, <2>0, <2>1 DEF Undisturbed
  <2>3. CASE b.by \in Uploads(o, c) /\ dPc[b.by] = "record"
    <3>1. b.by \in Uploads(o, c)'
      BY <2>3
    <3> QED BY <2>3, <3>1
  <2> QED BY <2>2, <2>3
<1> QED BY <1>3, <1>4 DEF Undisturbed

LEMMA DocumentUpload ==
  ASSUME D!DocumentsAssumption, DocumentInv, NEW r \in Requests, D!Upload(r)
  PROVE  DocumentInv'
<1>1. DocumentBase
  BY DEF DocumentInv
<1>2. PICK o \in D!Owners : \E c \in ColumnsOf[o], f \in Files :
        /\ dReq' = [dReq EXCEPT ![r] = [owner |-> o, column |-> c, key |-> D!KeyFor(o, c, f),
                                      loaded |-> column[o][c]]]
        /\ torn' = IF \E q \in D!InFlight : D!At(q) = <<o, c>> THEN torn \cup {<<o, c>>}
                   ELSE torn
  BY DEF D!Upload
<1>3. PICK c \in ColumnsOf[o], f \in Files :
        /\ dReq' = [dReq EXCEPT ![r] = [owner |-> o, column |-> c, key |-> D!KeyFor(o, c, f),
                                      loaded |-> column[o][c]]]
        /\ torn' = IF \E q \in D!InFlight : D!At(q) = <<o, c>> THEN torn \cup {<<o, c>>}
                   ELSE torn
  BY <1>2
<1>4. /\ dPc[r] = "idle" /\ dPc' = [dPc EXCEPT ![r] = "put"]
      /\ UNCHANGED <<name, column, bucket, named, supplied, latest>> /\ torn \subseteq torn'
  BY <1>3 DEF D!Upload
<1>5. PICK q : /\ q = [owner |-> o, column |-> c, key |-> D!KeyFor(o, c, f), loaded |-> column[o][c]]
               /\ q.owner = o /\ q.column = c /\ q.key = Made(o, name[o], c, f)
               /\ q.loaded = column[o][c]
  <2>1. D!KeyFor(o, c, f) = Made(o, name[o], c, f)
    BY KeyIsMade
  <2>2. PICK w : w = [owner |-> o, column |-> c, key |-> D!KeyFor(o, c, f), loaded |-> column[o][c]]
    OBVIOUS
  <2>3. w.owner = o /\ w.column = c /\ w.key = D!KeyFor(o, c, f) /\ w.loaded = column[o][c]
    BY <2>2
  <2> QED BY <2>1, <2>2, <2>3
<1>6. /\ dReq'[r] = q /\ dPc'[r] = "put" /\ dReq' = [p \in Requests |-> dReq'[p]]
      /\ \A p \in Requests \ {r} :
           /\ dReq'[p] = dReq[p] /\ dPc'[p] = dPc[p]
           /\ (p \in D!InFlight' <=> p \in D!InFlight)
           /\ D!At(p)' = D!At(p)
      /\ \A p, d : /\ Uploads(p, d) \subseteq Requests /\ Uploads(p, d)' \subseteq Requests
                   /\ Uploads(p, d)' \ {r} = Uploads(p, d) \ {r}
  <2>1. dReq' = [dReq EXCEPT ![r] = q]
    BY <1>3, <1>5
  <2> QED BY <1>1, <1>4, <2>1, DocumentMoves
<1>7. r \in Uploads(o, c)' /\ \A p, d : r \notin Uploads(p, d)
  BY <1>4, <1>5, <1>6 DEF Uploads, D!InFlight, D!At
<1>8. \A p, d : <<p, d>> # <<o, c>> => Uploads(p, d)' = Uploads(p, d)
  <2>1. \A p, d : <<p, d>> # <<o, c>> => r \notin Uploads(p, d)'
    BY <1>5, <1>6 DEF Uploads, D!At
  <2> QED BY <1>6, <1>7, <2>1
<1>9. \A k, p, d : MadeFor(k, p, d)' <=> MadeFor(k, p, d)
  BY <1>4 DEF MadeFor, Made
<1>10. DocumentBase'
  <2>1. UploadHeld(r)'
    <3>1. MadeFor(q.key, o, c)
      BY <1>1, <1>5 DEF MadeFor, DocumentBase
    <3> QED BY <1>5, <1>6, <1>9, <3>1 DEF UploadHeld
  <2>2. ASSUME NEW p \in D!InFlight' PROVE UploadHeld(p)'
    <3>1. CASE p # r
      <4>1. p \in Requests /\ p \in D!InFlight
        BY <1>6, <2>2, <3>1 DEF D!InFlight
      <4>2. UploadHeld(p)
        BY <1>1, <4>1 DEF DocumentBase
      <4> QED BY <1>4, <1>6, <1>9, <3>1, <4>1, <4>2 DEF UploadHeld, Stored
    <3> QED BY <2>1, <3>1
  <2>3. \A b \in bucket : FileHeld(b)'
    BY <1>1, <1>9 DEF DocumentBase, FileHeld
  <2>4. \A p \in D!Owners : \A d \in ColumnsOf[p] : KeyHeld(p, d)'
    BY <1>1, <1>4, <1>9 DEF DocumentBase, KeyHeld, Stored, Uploaded
  <2>5. dPc' \in [Requests -> {"idle", "put", "record", "ended"}]
    BY <1>1, <1>4 DEF DocumentBase
  <2>6. PerOwnColumn(column)' /\ PerOwnColumn(latest)'
    BY <1>1, <1>4 DEF DocumentBase, PerOwnColumn
  <2> QED BY <1>1, <1>4, <1>6, <2>2, <2>3, <2>4, <2>5, <2>6 DEF DocumentBase
<1>11. ASSUME NEW p \in D!Owners, NEW d \in ColumnsOf[p], <<p, d>> # <<o, c>>
       PROVE  Answered(p, d)'
  <2>1. Uploads(p, d)' = Uploads(p, d)
    BY <1>8, <1>11
  <2>2. \A x \in Uploads(p, d) : dReq'[x] = dReq[x] /\ dPc'[x] = dPc[x]
    BY <1>6, <1>7
  <2> QED BY <1>4, <2>1, <2>2, DocumentLeftAlone
<1>12. Answered(o, c)'
  <2> SUFFICES ASSUME D!Apart(o)', <<o, c>> \notin torn' PROVE Undisturbed(o, c)'
    BY DEF Answered
  <2>1. Undisturbed(o, c)
    BY <1>4, WasApart DEF DocumentInv, Answered
  <2>2. Uploads(o, c) = {}
    BY <1>3 DEF Uploads
  <2>3. Uploads(o, c)' = {r}
    BY <1>6, <1>7, <2>2
  <2>4. Uploaded(o, c) => \A b \in bucket : b.key = column[o][c] => b.by = latest[o][c]
    BY <2>1, <2>2 DEF Undisturbed
  <2>5. /\ dReq'[r].loaded = column'[o][c] /\ dPc'[r] # "record"
    BY <1>4, <1>5, <1>6
  <2>6. Uploaded(o, c)' <=> Uploaded(o, c)
    BY <1>4 DEF Uploaded
  <2> QED BY <1>4, <2>3, <2>4, <2>5, <2>6 DEF Undisturbed
<1>13. \A p \in D!Owners : \A d \in ColumnsOf[p] : Answered(p, d)'
  BY <1>11, <1>12
<1> QED BY <1>10, <1>13 DEF DocumentInv

(* A request that ends, and leaves no object without its key.              *)
LEMMA DocumentEnds ==
  ASSUME DocumentInv, NEW r \in Requests, D!Ended(r),
         UNCHANGED <<name, column, bucket, named, supplied, latest>>,
         torn \subseteq torn', dPc[r] = "record" => D!At(r) \in torn'
  PROVE  DocumentInv'
<1>1. DocumentBase
  BY DEF DocumentInv
<1>2. /\ dReq'[r] = D!NoReq /\ dPc'[r] = "ended" /\ dReq' = [p \in Requests |-> dReq'[p]]
      /\ \A p \in Requests \ {r} :
           /\ dReq'[p] = dReq[p] /\ dPc'[p] = dPc[p]
           /\ (p \in D!InFlight' <=> p \in D!InFlight)
           /\ D!At(p)' = D!At(p)
      /\ \A p, d : /\ Uploads(p, d) \subseteq Requests /\ Uploads(p, d)' \subseteq Requests
                   /\ Uploads(p, d)' \ {r} = Uploads(p, d) \ {r}
  BY <1>1, DocumentMoves DEF D!Ended
<1>3. r \notin D!InFlight' /\ D!InFlight' \subseteq Requests
  BY <1>2 DEF D!InFlight
<1>4. \A p, d : Uploads(p, d)' = Uploads(p, d) \ {r}
  BY <1>2, <1>3 DEF Uploads
<1>5. DocumentBase'
  <2>1. \A k, p, d : MadeFor(k, p, d)' <=> MadeFor(k, p, d)
    BY DEF MadeFor, Made
  <2>2. ASSUME NEW p \in D!InFlight' PROVE UploadHeld(p)'
    <3>1. p \in Requests \ {r} /\ p \in D!InFlight
      BY <1>2, <1>3, <2>2
    <3>2. UploadHeld(p)
      BY <1>1, <3>1 DEF DocumentBase
    <3> QED BY <1>2, <2>1, <3>1, <3>2 DEF UploadHeld, Stored
  <2>3. \A b \in bucket : FileHeld(b)'
    BY <1>1, <2>1 DEF DocumentBase, FileHeld
  <2>4. \A p \in D!Owners : \A d \in ColumnsOf[p] : KeyHeld(p, d)'
    BY <1>1, <2>1 DEF DocumentBase, KeyHeld, Stored, Uploaded
  <2>5. dPc' \in [Requests -> {"idle", "put", "record", "ended"}]
    BY <1>1 DEF DocumentBase, D!Ended
  <2>6. PerOwnColumn(column)' /\ PerOwnColumn(latest)'
    BY <1>1 DEF DocumentBase, PerOwnColumn
  <2> QED BY <1>1, <1>2, <2>2, <2>3, <2>4, <2>5, <2>6 DEF DocumentBase
<1>6. ASSUME NEW p \in D!Owners, NEW d \in ColumnsOf[p] PROVE Answered(p, d)'
  <2>1. CASE <<p, d>> \in torn'
    BY <2>1 DEF Answered
  <2>2. CASE <<p, d>> \notin torn'
    <3>1. \A x \in Uploads(p, d) : dPc[x] = "record" => x \in Uploads(p, d)'
      BY <1>4, <2>2 DEF Uploads
    <3>2. \A x \in Uploads(p, d)' : dReq'[x] = dReq[x] /\ dPc'[x] = dPc[x]
      BY <1>2, <1>4
    <3> QED BY <1>4, <3>1, <3>2, DocumentLeftAlone
  <2> QED BY <2>1, <2>2
<1> QED BY <1>5, <1>6 DEF DocumentInv

LEMMA DocumentPut ==
  ASSUME D!DocumentsAssumption, DocumentInv, NEW r \in Requests, D!Put(r)
  PROVE  DocumentInv'
<1>1. DocumentBase /\ dPc[r] = "put" /\ UNCHANGED <<name, column, named, supplied, latest, torn>>
  BY DEF DocumentInv, D!Put, D!history
<1>2. CASE D!Ended(r) /\ UNCHANGED bucket
  BY <1>1, <1>2, DocumentEnds
<1>3. CASE /\ bucket' = {b \in bucket : b.key # dReq[r].key}
                          \cup {[key |-> dReq[r].key, owner |-> dReq[r].owner, by |-> r]}
           /\ dPc' = [dPc EXCEPT ![r] = "record"] /\ UNCHANGED dReq
  <2>1. PICK q : q = dReq[r]
    OBVIOUS
  <2>2. UploadHeld(r)
    BY <1>1 DEF DocumentBase, D!InFlight
  <2>0. PICK o \in D!Owners : o = q.owner
    BY <2>1, <2>2 DEF UploadHeld
  <2>3. PICK c \in ColumnsOf[o] :
          q.owner = o /\ q.column = c /\ D!At(r) = <<o, c>> /\ MadeFor(q.key, o, c)
    BY <2>0, <2>1, <2>2 DEF UploadHeld, D!At
  <2>4. PICK stored : stored = [key |-> q.key, owner |-> o, by |-> r]
                     /\ stored.key = q.key /\ stored.owner = o /\ stored.by = r
    <3>1. PICK w : w = [key |-> q.key, owner |-> o, by |-> r]
      OBVIOUS
    <3>2. w.key = q.key /\ w.owner = o /\ w.by = r
      BY <3>1
    <3> QED BY <3>1, <3>2
  <2>5. bucket' = {b \in bucket : b.key # q.key} \cup {stored}
    BY <1>3, <2>1, <2>3, <2>4
  <2>6. \A b \in bucket' : b = stored \/ (b \in bucket /\ b.key # q.key)
    BY <2>5
  <2>7. Stored(q.key)' /\ \A k : Stored(k) => Stored(k)'
    BY <2>4, <2>5 DEF Stored
  <2>8. dReq' = [dReq EXCEPT ![r] = q]
    BY <1>1, <1>3, <2>1 DEF DocumentBase
  <2>9. /\ dReq'[r] = q /\ dPc'[r] = "record" /\ dReq' = [p \in Requests |-> dReq'[p]]
        /\ \A p \in Requests \ {r} :
             /\ dReq'[p] = dReq[p] /\ dPc'[p] = dPc[p]
             /\ (p \in D!InFlight' <=> p \in D!InFlight)
             /\ D!At(p)' = D!At(p)
        /\ \A p, d : /\ Uploads(p, d) \subseteq Requests /\ Uploads(p, d)' \subseteq Requests
                     /\ Uploads(p, d)' \ {r} = Uploads(p, d) \ {r}
    BY <1>1, <1>3, <2>8, DocumentMoves
  <2>10. \A p, d : Uploads(p, d)' = Uploads(p, d)
    <3>1. \A p, d : r \in Uploads(p, d)' <=> r \in Uploads(p, d)
      BY <1>1, <1>3, <2>9 DEF Uploads, D!InFlight, D!At
    <3> QED BY <2>9, <3>1
  <2>11. r \in Uploads(o, c)
    BY <1>1, <2>3 DEF Uploads, D!InFlight
  <2>12. \A k, p, d : MadeFor(k, p, d)' <=> MadeFor(k, p, d)
    BY <1>1 DEF MadeFor, Made
  <2>13. DocumentBase'
    <3>1. ASSUME NEW p \in D!InFlight' PROVE UploadHeld(p)'
      <4>1. p \in Requests /\ p \in D!InFlight /\ dReq'[p] = dReq[p]
        BY <1>1, <1>3, <2>9, <3>1 DEF D!InFlight
      <4>2. UploadHeld(p)
        BY <1>1, <4>1 DEF DocumentBase
      <4>3. dPc'[p] = "record" => Stored(dReq[p].key)'
        BY <2>1, <2>7, <2>9, <4>1, <4>2 DEF UploadHeld
      <4> QED BY <2>12, <4>1, <4>2, <4>3 DEF UploadHeld
    <3>2. ASSUME NEW b \in bucket' PROVE FileHeld(b)'
      <4>1. FileHeld(stored)'
        BY <2>3, <2>4, <2>12 DEF FileHeld
      <4>2. b \in bucket => FileHeld(b)'
        BY <1>1, <2>12 DEF DocumentBase, FileHeld
      <4> QED BY <2>6, <4>1, <4>2
    <3>3. \A b, d \in bucket' : b.key = d.key => b = d
      BY <1>1, <2>4, <2>6 DEF DocumentBase
    <3>4. \A p \in D!Owners : \A d \in ColumnsOf[p] : KeyHeld(p, d)'
      BY <1>1, <2>7, <2>12 DEF DocumentBase, KeyHeld, Uploaded
    <3>5. dPc' \in [Requests -> {"idle", "put", "record", "ended"}]
      BY <1>1, <1>3 DEF DocumentBase
    <3>6. PerOwnColumn(column)' /\ PerOwnColumn(latest)'
      BY <1>1 DEF DocumentBase, PerOwnColumn
    <3> QED BY <1>1, <2>9, <3>1, <3>2, <3>3, <3>4, <3>5, <3>6 DEF DocumentBase
  <2>14. ASSUME NEW p \in D!Owners, NEW d \in ColumnsOf[p], <<p, d>> # <<o, c>>
         PROVE  Answered(p, d)'
    <3>1. \A k : D!Apart(p) /\ MadeFor(k, p, d) => k # q.key
      BY <2>3, <2>14, OneMaker
    <3>2. D!Apart(p) => \A x \in Uploads(p, d), b \in bucket' :
                          dPc[x] = "record" /\ b.key = dReq[x].key => b \in bucket
      <4>1. \A x \in Uploads(p, d) : MadeFor(dReq[x].key, p, d)
        <5>1. ASSUME NEW x \in Uploads(p, d) PROVE MadeFor(dReq[x].key, p, d)
          <6>1. x \in D!InFlight /\ dReq[x].owner = p /\ dReq[x].column = d
            BY <5>1 DEF Uploads, D!At
          <6>2. UploadHeld(x)
            BY <1>1, <6>1 DEF DocumentBase
          <6> QED BY <6>1, <6>2 DEF UploadHeld
        <5> QED BY <5>1
      <4> QED BY <2>4, <2>6, <3>1, <4>1
    <3>3. D!Apart(p) /\ Uploaded(p, d) =>
            \A b \in bucket' : b.key = column[p][d] => b \in bucket
      <4>1. Uploaded(p, d) => MadeFor(column[p][d], p, d)
        BY <1>1 DEF DocumentBase, KeyHeld
      <4> QED BY <2>4, <2>6, <3>1, <4>1
    <3>4. \A x \in Uploads(p, d) : x \in Requests \ {r}
      BY <2>3, <2>9, <2>14 DEF Uploads
    <3> QED BY <1>1, <2>9, <2>10, <3>2, <3>3, <3>4, DocumentLeftAlone
  <2>15. Answered(o, c)'
    <3> SUFFICES ASSUME D!Apart(o)', <<o, c>> \notin torn' PROVE Undisturbed(o, c)'
      BY DEF Answered
    <3>1. Undisturbed(o, c)
      BY <1>1, WasApart DEF DocumentInv, Answered
    <3>2. Uploads(o, c) = {r} /\ (q.loaded = column[o][c] \/ <<o, c>> \in supplied)
      BY <2>1, <2>11, <3>1 DEF Undisturbed
    <3>3. \A b \in bucket' : b.key = q.key => b.by = r
      BY <2>4, <2>6
    <3>6. Uploaded(o, c)' <=> Uploaded(o, c)
      BY <1>1 DEF Uploaded
    <3>4. ASSUME Uploaded(o, c), NEW b \in bucket', b.key = column[o][c]
          PROVE  b.by = latest[o][c] \/ (b.by \in Uploads(o, c)' /\ dPc'[b.by] = "record")
      <4>1. CASE b = stored
        BY <2>4, <2>9, <2>10, <2>11, <4>1
      <4>2. CASE b \in bucket
        <5>1. b.by = latest[o][c] \/ (b.by \in Uploads(o, c) /\ dPc[b.by] = "record")
          BY <3>1, <3>4, <4>2 DEF Undisturbed
        <5> QED BY <1>1, <3>2, <5>1
      <4> QED BY <2>6, <4>1, <4>2
    <3>5. \A x \in Uploads(o, c)' : x = r
      BY <2>10, <3>2
    <3> QED BY <1>1, <2>9, <2>10, <3>2, <3>3, <3>4, <3>5, <3>6 DEF Undisturbed
  <2> QED BY <2>13, <2>14, <2>15 DEF DocumentInv
<1> QED BY <1>2, <1>3 DEF D!Put

LEMMA DocumentRecord ==
  ASSUME D!DocumentsAssumption, DocumentInv, NEW r \in Requests, D!Record(r)
  PROVE  DocumentInv'
<1>1. DocumentBase /\ dPc[r] = "record" /\ UNCHANGED <<name, bucket, named, torn>>
  BY DEF DocumentInv, D!Record
<1>2. PICK q : q = dReq[r]
  OBVIOUS
<1>3. UploadHeld(r)
  BY <1>1 DEF DocumentBase, D!InFlight
<1>4. PICK o \in D!Owners : o = q.owner
  BY <1>2, <1>3 DEF UploadHeld
<1>5. PICK c \in ColumnsOf[o] :
        q.column = c /\ D!At(r) = <<o, c>> /\ MadeFor(q.key, o, c) /\ Stored(q.key)
  BY <1>1, <1>2, <1>3, <1>4 DEF UploadHeld, D!At
<1>6. PICK v : v = IF q.loaded = q.key THEN column[o][c] ELSE q.key
  OBVIOUS
<1>7. /\ column' = [column EXCEPT ![o][c] = v] /\ latest' = [latest EXCEPT ![o][c] = r]
      /\ supplied' = IF column'[o][c] = q.key THEN supplied \ {<<o, c>>} ELSE supplied
      /\ D!Ended(r)
  BY <1>2, <1>4, <1>5, <1>6 DEF D!Record
<1>8. /\ PerOwnColumn(column)' /\ column'[o][c] = v
      /\ \A p \in D!Owners : \A d \in ColumnsOf[p] :
           <<p, d>> # <<o, c>> => column'[p][d] = column[p][d]
  <2>1. PerOwnColumn(column)
    BY <1>1 DEF DocumentBase
  <2>2. /\ PerOwnColumn(column') /\ column'[o][c] = v
        /\ \A p \in D!Owners : \A d \in ColumnsOf[p] :
             <<p, d>> # <<o, c>> => column'[p][d] = column[p][d]
    <3>1. PICK f, g : f = column /\ g = column'
      OBVIOUS
    <3>2. PerOwnColumn(f) /\ g = SetTo(f, o, c, v)
      BY <1>7, <2>1, <3>1 DEF SetTo
    <3>3. /\ PerOwnColumn(g) /\ g[o][c] = v
          /\ \A p \in D!Owners : \A d \in ColumnsOf[p] : <<p, d>> # <<o, c>> => g[p][d] = f[p][d]
      BY <3>2, ColumnSet
    <3> QED BY <3>1, <3>3
  <2> QED BY <2>2 DEF PerOwnColumn
<1>9. /\ PerOwnColumn(latest)' /\ latest'[o][c] = r
      /\ \A p \in D!Owners : \A d \in ColumnsOf[p] :
           <<p, d>> # <<o, c>> => latest'[p][d] = latest[p][d]
  <2>1. PerOwnColumn(latest)
    BY <1>1 DEF DocumentBase
  <2>2. /\ PerOwnColumn(latest') /\ latest'[o][c] = r
        /\ \A p \in D!Owners : \A d \in ColumnsOf[p] :
             <<p, d>> # <<o, c>> => latest'[p][d] = latest[p][d]
    <3>1. PICK f, g : f = latest /\ g = latest'
      OBVIOUS
    <3>2. PerOwnColumn(f) /\ g = SetTo(f, o, c, r)
      BY <1>7, <2>1, <3>1 DEF SetTo
    <3>3. /\ PerOwnColumn(g) /\ g[o][c] = r
          /\ \A p \in D!Owners : \A d \in ColumnsOf[p] : <<p, d>> # <<o, c>> => g[p][d] = f[p][d]
      BY <3>2, ColumnSet
    <3> QED BY <3>1, <3>3
  <2> QED BY <2>2 DEF PerOwnColumn
<1>10. /\ dReq'[r] = D!NoReq /\ dPc'[r] = "ended" /\ dReq' = [p \in Requests |-> dReq'[p]]
       /\ \A p \in Requests \ {r} :
            /\ dReq'[p] = dReq[p] /\ dPc'[p] = dPc[p]
            /\ (p \in D!InFlight' <=> p \in D!InFlight)
            /\ D!At(p)' = D!At(p)
       /\ \A p, d : /\ Uploads(p, d) \subseteq Requests /\ Uploads(p, d)' \subseteq Requests
                    /\ Uploads(p, d)' \ {r} = Uploads(p, d) \ {r}
  BY <1>1, <1>7, DocumentMoves DEF D!Ended
<1>11. r \notin D!InFlight' /\ D!InFlight' \subseteq Requests
  BY <1>10 DEF D!InFlight
<1>12. \A p, d : Uploads(p, d)' = Uploads(p, d) \ {r}
  BY <1>10, <1>11 DEF Uploads
<1>13. r \in Uploads(o, c)
  BY <1>1, <1>5 DEF Uploads, D!InFlight
<1>14. DocumentBase'
  <2>1. \A k, p, d : MadeFor(k, p, d)' <=> MadeFor(k, p, d)
    BY <1>1 DEF MadeFor, Made
  <2>2. \A k : Stored(k)' <=> Stored(k)
    BY <1>1 DEF Stored
  <2>3. ASSUME NEW p \in D!InFlight' PROVE UploadHeld(p)'
    <3>1. p \in Requests \ {r} /\ p \in D!InFlight
      BY <1>10, <1>11, <2>3
    <3>2. UploadHeld(p)
      BY <1>1, <3>1 DEF DocumentBase
    <3> QED BY <1>10, <2>1, <2>2, <3>1, <3>2 DEF UploadHeld
  <2>4. \A b \in bucket : FileHeld(b)'
    BY <1>1, <2>1 DEF DocumentBase, FileHeld
  <2>5. ASSUME NEW p \in D!Owners, NEW d \in ColumnsOf[p] PROVE KeyHeld(p, d)'
    <3>1. KeyHeld(p, d)
      BY <1>1 DEF DocumentBase
    <3>2. CASE <<p, d>> # <<o, c>>
      BY <1>7, <1>8, <2>1, <2>2, <3>1, <3>2 DEF KeyHeld, Uploaded
    <3>3. CASE <<p, d>> = <<o, c>>
      BY <1>5, <1>6, <1>7, <1>8, <2>1, <2>2, <3>1, <3>3 DEF KeyHeld, Uploaded
    <3> QED BY <3>2, <3>3
  <2>6. dPc' \in [Requests -> {"idle", "put", "record", "ended"}]
    BY <1>1, <1>7 DEF DocumentBase, D!Ended
  <2> QED BY <1>1, <1>8, <1>9, <1>10, <2>3, <2>4, <2>5, <2>6 DEF DocumentBase
<1>15. ASSUME NEW p \in D!Owners, NEW d \in ColumnsOf[p], <<p, d>> # <<o, c>>
       PROVE  Answered(p, d)'
  <2>1. r \notin Uploads(p, d)
    BY <1>5, <1>15 DEF Uploads
  <2>2. Uploads(p, d)' = Uploads(p, d) /\ \A x \in Uploads(p, d) : x \in Requests \ {r}
    BY <1>10, <1>12, <2>1
  <2>3. <<p, d>> \in supplied' <=> <<p, d>> \in supplied
    BY <1>7, <1>15
  <2> QED BY <1>1, <1>8, <1>9, <1>10, <1>15, <2>2, <2>3, DocumentLeftAlone
<1>16. Answered(o, c)'
  <2> SUFFICES ASSUME D!Apart(o)', <<o, c>> \notin torn' PROVE Undisturbed(o, c)'
    BY DEF Answered
  <2>1. Undisturbed(o, c)
    BY <1>1, WasApart DEF DocumentInv, Answered
  <2>2. /\ Uploads(o, c) = {r} /\ (q.loaded = column[o][c] \/ <<o, c>> \in supplied)
        /\ \A b \in bucket : b.key = q.key => b.by = r
    BY <1>1, <1>2, <1>13, <2>1 DEF Undisturbed
  <2>3. Uploads(o, c)' = {}
    BY <1>12, <2>2
  (* What a body wrote in between stays, if the key was there before.      *)
  <2>4. Uploaded(o, c)' => column'[o][c] = q.key
    BY <1>6, <1>7, <1>8, <2>2 DEF Uploaded
  <2> QED BY <1>1, <1>8, <1>9, <2>2, <2>3, <2>4 DEF Undisturbed
<1> QED BY <1>14, <1>15, <1>16 DEF DocumentInv

(* A PATCH: a column has another text, or what it had.                     *)
LEMMA DocumentPatched ==
  ASSUME DocumentInv, NEW o \in D!Owners, NEW n \in Names, D!Patched(o, n),
         PerOwnColumn(column)', supplied \subseteq supplied',
         \A p \in D!Owners : \A d \in ColumnsOf[p] :
           <<p, d>> \notin supplied' => column'[p][d] = column[p][d]
  PROVE  DocumentInv'
<1>1. DocumentBase /\ UNCHANGED <<bucket, dPc, dReq, latest, torn>>
  BY DEF DocumentInv, D!Patched
<1>2. name' = [name EXCEPT ![o] = n] /\ named' = [named EXCEPT ![o] = @ \cup {n}]
  BY DEF D!Patched
<1>3. /\ name' \in [D!Owners -> Names] /\ named' \in [D!Owners -> SUBSET Names]
      /\ \A p \in D!Owners : name'[p] \in named'[p] /\ named[p] \subseteq named'[p]
  BY <1>1, <1>2 DEF DocumentBase
<1>4. \A p \in D!Owners : \A k, d : MadeFor(k, p, d) => MadeFor(k, p, d)'
  BY <1>3, StillMade
<1>5. \A r \in D!InFlight : UploadHeld(r)'
  BY <1>1, <1>4 DEF DocumentBase, UploadHeld, Stored
<1>6. \A b \in bucket : FileHeld(b)'
  BY <1>1, <1>4 DEF DocumentBase, FileHeld
<1>7. \A p \in D!Owners : \A d \in ColumnsOf[p] : KeyHeld(p, d)'
  <2> SUFFICES ASSUME NEW p \in D!Owners, NEW d \in ColumnsOf[p], Uploaded(p, d)'
               PROVE  KeyHeld(p, d)'
    BY DEF KeyHeld
  <2>1. column'[p][d] = column[p][d] /\ Uploaded(p, d)
    BY DEF Uploaded
  <2>2. PICK k : k = column[p][d] /\ MadeFor(k, p, d) /\ Stored(k)
    BY <1>1, <2>1 DEF DocumentBase, KeyHeld
  <2>3. MadeFor(k, p, d)' /\ Stored(k)'
    BY <1>1, <1>4, <2>2 DEF Stored
  <2> QED BY <2>1, <2>2, <2>3 DEF KeyHeld
<1>8. DocumentBase'
  BY <1>1, <1>3, <1>5, <1>6, <1>7 DEF DocumentBase, D!InFlight, PerOwnColumn
<1>9. ASSUME NEW p \in D!Owners, NEW d \in ColumnsOf[p] PROVE Answered(p, d)'
  <2>1. Uploads(p, d)' = Uploads(p, d)
    BY <1>1 DEF Uploads, D!InFlight, D!At
  <2>2. CASE <<p, d>> \notin supplied'
    <3>1. column'[p][d] = column[p][d] /\ <<p, d>> \notin supplied
      BY <2>2
    <3> QED BY <1>1, <1>3, <2>1, <2>2, <3>1, DocumentLeftAlone
  <2>3. CASE <<p, d>> \in supplied'
    <3> SUFFICES ASSUME D!Apart(p)', <<p, d>> \notin torn' PROVE Undisturbed(p, d)'
      BY DEF Answered
    <3>1. Undisturbed(p, d)
      BY <1>1, <1>3, WasApart DEF DocumentInv, Answered
    <3>2. \A r \in Uploads(p, d) :
            /\ Uploads(p, d) = {r}
            /\ dPc[r] = "record" => \A b \in bucket : b.key = dReq[r].key => b.by = r
      BY <3>1 DEF Undisturbed
    <3>3. ~Uploaded(p, d)'
      BY <2>3 DEF Uploaded
    <3> QED BY <1>1, <2>1, <2>3, <3>2, <3>3 DEF Undisturbed
  <2> QED BY <2>2, <2>3
<1> QED BY <1>8, <1>9 DEF DocumentInv

LEMMA DocumentRename ==
  ASSUME DocumentInv, NEW o \in D!Owners, D!Rename(o)
  PROVE  DocumentInv'
<1>1. PICK n \in Names : D!Patched(o, n)
  BY DEF D!Rename
<1>2. UNCHANGED <<column, supplied>>
  BY DEF D!Rename
<1>3. PerOwnColumn(column)'
  BY <1>2 DEF DocumentInv, DocumentBase, PerOwnColumn
<1> QED BY <1>1, <1>2, <1>3, DocumentPatched

LEMMA DocumentUpdate ==
  ASSUME DocumentInv, NEW o \in D!Owners, D!Update(o)
  PROVE  DocumentInv'
<1>1. PICK n \in Names : D!Patched(o, n)
  BY DEF D!Update
<1>2. PICK written \in SUBSET ColumnsOf[o] : \E text \in [written -> Texts \cup {None}] :
        /\ column' = [column EXCEPT ![o] =
                       [c \in ColumnsOf[o] |-> IF c \in written THEN text[c] ELSE column[o][c]]]
        /\ supplied' = supplied \cup ({o} \X written)
  BY DEF D!Update
<1>3. PICK text \in [written -> Texts \cup {None}] :
        /\ column' = [column EXCEPT ![o] =
                       [c \in ColumnsOf[o] |-> IF c \in written THEN text[c] ELSE column[o][c]]]
        /\ supplied' = supplied \cup ({o} \X written)
  BY <1>2
<1>4. PICK row : row = [c \in ColumnsOf[o] |-> IF c \in written THEN text[c] ELSE column[o][c]]
  OBVIOUS
<1>5. PerOwnColumn(column)
  BY DEF DocumentInv, DocumentBase
<1>6. column' = [p \in D!Owners |-> IF p = o THEN row ELSE column[p]]
  BY <1>3, <1>4, <1>5 DEF PerOwnColumn
<1>7. PerOwnColumn(column)'
  <2>1. ASSUME NEW p \in D!Owners PROVE column'[p] = [c \in ColumnsOf[p] |-> column'[p][c]]
    <3>1. CASE p = o
      <4>1. column'[p] = row
        BY <1>6, <3>1
      <4> QED BY <1>4, <3>1, <4>1
    <3>2. CASE p # o
      <4>1. column'[p] = column[p]
        BY <1>6, <3>2
      <4>2. column[p] = [c \in ColumnsOf[p] |-> column[p][c]]
        BY <1>5 DEF PerOwnColumn
      <4> QED BY <4>1, <4>2
    <3> QED BY <3>1, <3>2
  <2> QED BY <1>6, <2>1 DEF PerOwnColumn
<1>8. ASSUME NEW p \in D!Owners, NEW d \in ColumnsOf[p], <<p, d>> \notin supplied'
      PROVE  column'[p][d] = column[p][d]
  <2>1. CASE p = o
    <3>1. d \notin written
      BY <1>3, <1>8, <2>1
    <3> QED BY <1>4, <1>6, <1>8, <2>1, <3>1
  <2>2. CASE p # o
    BY <1>6, <2>2
  <2> QED BY <2>1, <2>2
<1>9. supplied \subseteq supplied'
  BY <1>3
<1> QED BY <1>1, <1>7, <1>8, <1>9, DocumentPatched

LEMMA DocumentStutters == ASSUME DocumentInv, UNCHANGED D!vars PROVE DocumentInv'
<1>1. UNCHANGED <<name, column, bucket, dPc, dReq, patches, named, supplied, latest, torn>>
  BY DEF D!vars
<1>2. DocumentBase'
  <2>1. \A k, p, d : MadeFor(k, p, d)' <=> MadeFor(k, p, d)
    BY <1>1 DEF MadeFor, Made
  <2>2. \A r \in D!InFlight : UploadHeld(r)'
    BY <1>1, <2>1 DEF DocumentInv, DocumentBase, UploadHeld, Stored
  <2>3. \A b \in bucket : FileHeld(b)'
    BY <1>1, <2>1 DEF DocumentInv, DocumentBase, FileHeld
  <2>4. \A p \in D!Owners : \A d \in ColumnsOf[p] : KeyHeld(p, d)'
    BY <1>1, <2>1 DEF DocumentInv, DocumentBase, KeyHeld, Stored, Uploaded
  <2> QED BY <1>1, <2>2, <2>3, <2>4 DEF DocumentInv, DocumentBase, D!InFlight, PerOwnColumn
<1>3. ASSUME NEW p \in D!Owners, NEW d \in ColumnsOf[p] PROVE Answered(p, d)'
  <2>1. Uploads(p, d)' = Uploads(p, d)
    BY <1>1 DEF Uploads, D!InFlight, D!At
  <2> QED BY <1>1, <2>1, DocumentLeftAlone
<1> QED BY <1>2, <1>3 DEF DocumentInv

LEMMA DocumentFail ==
  ASSUME DocumentInv, NEW r \in Requests, D!Fail(r)
  PROVE  DocumentInv'
<1>1. /\ D!Ended(r) /\ UNCHANGED <<name, column, bucket, named, supplied, latest>>
      /\ torn' = IF dPc[r] = "record" THEN torn \cup {D!At(r)} ELSE torn
  BY DEF D!Fail
<1> QED BY <1>1, DocumentEnds

(* What is invariant of the documents (services/s3.py and the upload       *)
(* routes): the keys are made from a name the owner has had, and lie in    *)
(* the bucket.                                                             *)
THEOREM DocumentInductive == ASSUME D!DocumentsAssumption PROVE D!Spec => []DocumentInv
<1>1. D!Init => DocumentInv
  BY DocumentInitially
<1>2. DocumentInv /\ [D!Next]_D!vars => DocumentInv'
  BY DocumentUpload, DocumentPut, DocumentRecord, DocumentFail, DocumentRename,
     DocumentUpdate, DocumentStutters DEF D!Next
<1> QED BY <1>1, <1>2, PTL DEF D!Spec

(* The link of a column that an upload has written since a body last did   *)
(* leads, while no other owner has had the words of its folder, to one     *)
(* object that its owner has uploaded, the last one unless two uploads of  *)
(* the column overlapped or one died half way.                             *)
THEOREM LinksLeadToOwnUploadsHolds ==
  ASSUME D!DocumentsAssumption PROVE D!Spec => []LinksLeadToOwnUploads
<1>1. DocumentInv => LinksLeadToOwnUploads
  <2> SUFFICES ASSUME DocumentInv, NEW o \in D!Owners, NEW c \in ColumnsOf[o],
                      Uploaded(o, c), D!Apart(o)
               PROVE  \E b \in bucket :
                        /\ D!Served(o, c) = {b} /\ b.owner = o
                        /\ \/ <<o, c>> \in torn \/ b.by = latest[o][c]
                           \/ dPc[b.by] = "record" /\ D!At(b.by) = <<o, c>>
    BY DEF LinksLeadToOwnUploads, D!LinksLeadToOwnUploads, Uploaded
  <2>1. DocumentBase
    BY DEF DocumentInv
  <2>2. MadeFor(column[o][c], o, c) /\ Stored(column[o][c])
    BY <2>1 DEF DocumentBase, KeyHeld
  <2>3. PICK b \in bucket : b.key = column[o][c]
    BY <2>2 DEF Stored
  <2>4. D!Served(o, c) = {b}
    BY <2>1, <2>3 DEF D!Served, DocumentBase
  <2>5. b.owner = o
    <3>1. PICK d \in ColumnsOf[b.owner] : MadeFor(b.key, b.owner, d)
      BY <2>1 DEF DocumentBase, FileHeld
    <3>2. b.owner \in D!Owners
      BY <2>1 DEF DocumentBase, FileHeld
    <3> QED BY <2>2, <2>3, <3>1, <3>2, OneMaker
  <2>6. <<o, c>> \notin torn =>
          b.by = latest[o][c] \/ (dPc[b.by] = "record" /\ D!At(b.by) = <<o, c>>)
    BY <2>3 DEF DocumentInv, Answered, Undisturbed, Uploads
  <2> QED BY <2>4, <2>5, <2>6
<1> QED BY <1>1, DocumentInductive, PTL

(* What is joined shows its parts when one of them has a known length.     *)
LEMMA JoinedApart ==
  ASSUME NEW a \in Seq(STRING), NEW b \in Seq(STRING),
         NEW x \in Seq(STRING), NEW y \in Seq(STRING),
         Len(x) = Len(y), a \o x = b \o y
  PROVE  x = y
<1>1. Len(a \o x) = Len(a) + Len(x) /\ Len(b \o y) = Len(b) + Len(y)
  <2>1. ASSUME NEW u \in Seq(STRING), NEW v \in Seq(STRING) PROVE Len(u \o v) = Len(u) + Len(v)
    OBVIOUS
  <2> QED BY <2>1
<1>2. Len(a) = Len(b)
  BY <1>1
<1>3. ASSUME NEW i \in 1..Len(x) PROVE x[i] = y[i]
  <2>1. (a \o x)[Len(a) + i] = x[i] /\ (b \o y)[Len(b) + i] = y[i]
    BY <1>3
  <2> QED BY <1>2, <2>1
<1> QED BY <1>3

(* The links of a student lead to one file, of his own, whatever the       *)
(* students are called and renamed to, if no national id has the words of  *)
(* another one and all have equally many (as ids without underscores do):  *)
(* it is only an underscore in an id that moves where the name ends        *)
(* (make_s3_folder_key).                                                   *)
THEOREM PlainIdsKeepFilesApart ==
  ASSUME D!DocumentsAssumption,
         \A s, q \in Pupils :
           /\ Len(Digits[NationalId[s]]) = Len(Digits[NationalId[q]])
           /\ s # q => Digits[NationalId[s]] # Digits[NationalId[q]]
  PROVE  D!Spec => [](\A o \in Pupils : \A c \in ColumnsOf[o] :
                        column[o][c] # None /\ <<o, c>> \notin supplied =>
                          \E b \in bucket : D!Served(o, c) = {b} /\ b.owner = o)
<1>1. DocumentInv => \A o \in Pupils : D!Apart(o)
  <2> SUFFICES ASSUME DocumentInv, NEW o \in Pupils, NEW s \in Pupils \ {o},
                      NEW m \in named[o], NEW n \in named[s]
               PROVE  Stem[m] \o Digits[NationalId[o]] # Stem[n] \o Digits[NationalId[s]]
    BY DEF D!Apart
  <2>1. m \in Names /\ n \in Names
    BY DEF DocumentInv, DocumentBase, D!Owners
  <2>2. /\ Stem[m] \in Seq(STRING) /\ Stem[n] \in Seq(STRING)
        /\ Digits[NationalId[o]] \in Seq(STRING) /\ Digits[NationalId[s]] \in Seq(STRING)
    BY <2>1 DEF D!DocumentsAssumption
  <2>3. Digits[NationalId[o]] # Digits[NationalId[s]]
        /\ Len(Digits[NationalId[o]]) = Len(Digits[NationalId[s]])
    OBVIOUS
  <2> QED BY <2>2, <2>3, JoinedApart
<1>2. DocumentInv /\ LinksLeadToOwnUploads =>
        \A o \in Pupils : \A c \in ColumnsOf[o] :
          column[o][c] # None /\ <<o, c>> \notin supplied =>
            \E b \in bucket : D!Served(o, c) = {b} /\ b.owner = o
  BY <1>1 DEF LinksLeadToOwnUploads, D!LinksLeadToOwnUploads, D!Owners
<1> QED BY <1>2, DocumentInductive, LinksLeadToOwnUploadsHolds, PTL

-----------------------------------------------------------------------------
(* The leaderboard's sockets and the two fan-out loops of a finalisation.  *)

SocketState == [pc: {"new", "snapshot", "greet", "open", "off"}, snap: L!Boards \cup {Blank}]
Finalisation ==
  [pc: {"idle", "read", "copy", "send", "commit", "end"}, round: Rounds,
   student: Students \cup {Blank}, board: L!Boards \cup {Blank}, channel: L!Channels,
   todo: SUBSET L!Sockets, dead: SUBSET L!Sockets, reached: SUBSET L!Sockets, alone: BOOLEAN]
InRoom(s) ==
  /\ sock[s].pc \in {"snapshot", "greet", "open"} /\ s \notin gone => s \in room[L!ChannelOf(s)]
  /\ sock[s].pc = "new" => screen[s] = Blank /\ s \notin gone /\ \A c \in L!Channels : s \notin room[c]
  /\ sock[s].pc \in {"snapshot", "greet"} => s \in Viewers
FinHeld(f) ==
  LET t == fin[f] IN
  f \in L!Finalising =>
    /\ t.student \in Students /\ (t.pc # "read" => t.board \in L!Boards)
    /\ t.dead \subseteq gone
    /\ t.todo \subseteq IF t.channel = "leaderboard" THEN Viewers ELSE Staff
    /\ \A s \in t.todo : sock[s].pc # "new"
    /\ t.pc = "commit" => t.channel = "admin"
    /\ t.pc = "read" => t.channel = "leaderboard" /\ t.reached = {}
    /\ t.alone => L!Finalising = {f}
SocketTypes ==
  /\ results \in [Rounds -> [Students -> Finalisers \cup {0}]]
  /\ screen \in [L!Sockets -> L!Boards \cup {Blank}]
  /\ gone \subseteq L!Sockets /\ stale \subseteq L!Sockets
  /\ room \in [L!Channels -> SUBSET L!Sockets]
  /\ room["leaderboard"] \subseteq Viewers /\ room["admin"] \subseteq Staff
  /\ sock \in [L!Sockets -> SocketState] /\ fin \in [Finalisers -> Finalisation]
BoardBase ==
  /\ SocketTypes /\ \A s \in L!Sockets : InRoom(s)
  /\ \A f \in Finalisers : FinHeld(f)

(* What is on record, who shows it, and how far the broadcast of a         *)
(* finalisation that met no other has come.                                *)
Current == L!Board(Newest, results[Newest])
Shows(s, b) == screen[s] = b \/ (s \in Staff /\ screen[s] = Blank)
QuietAt(s) ==
  /\ s \in L!Open => Shows(s, Current)
  /\ sock[s].pc = "greet" => sock[s].snap = Current
Quiet == L!Finalising = {} => \A s \in L!Sockets \ stale : QuietAt(s)
Busy == L!Finalising # {} => L!Connecting \subseteq stale
Shown(f, s) ==
  LET t == fin[f] IN
  /\ t.channel = L!ChannelOf(s) /\ t.pc = "send" => s \in t.todo \/ Shows(s, t.board)
  /\ t.channel = "admin" /\ s \in Viewers => Shows(s, t.board)
  /\ t.pc = "commit" => Shows(s, t.board)
Cast(f) ==
  LET t == fin[f] IN
  f \in L!Finalising /\ t.alone /\ t.round = Newest =>
    /\ t.pc # "read" => t.board = L!Board(Newest, [results[Newest] EXCEPT ![t.student] = f])
    /\ \A s \in t.reached : sock[s].pc \in {"open", "off"} /\ screen[s] = t.board
    /\ \A s \in L!Open \ stale : Shown(f, s)
BoardInv == BoardBase /\ Quiet /\ Busy /\ \A f \in Finalisers : Cast(f)

LEMMA BoardInitially == L!LeaderboardAssumption /\ L!Init => BoardInv
<1> SUFFICES ASSUME L!LeaderboardAssumption, L!Init PROVE BoardInv
  OBVIOUS
<1>1. L!Finalising = {} /\ L!Connecting = {}
  BY DEF L!Init, L!Finalising, L!NoFin, L!Connecting
<1>2. L!NoFin \in Finalisation
  BY DEF L!NoFin, Finalisation, L!Channels, L!LeaderboardAssumption
<1>3. SocketTypes
  <2>1. results \in [Rounds -> [Students -> Finalisers \cup {0}]]
    BY DEF L!Init
  <2>2. room \in [L!Channels -> SUBSET L!Sockets]
        /\ room["leaderboard"] \subseteq Viewers /\ room["admin"] \subseteq Staff
    BY DEF L!Init, L!Channels
  <2>3. sock \in [L!Sockets -> SocketState]
    BY DEF L!Init, SocketState
  <2> QED BY <1>2, <2>1, <2>2, <2>3 DEF L!Init, SocketTypes
<1>4. \A s \in L!Sockets : InRoom(s)
  BY DEF L!Init, InRoom
<1>5. Quiet
  BY DEF L!Init, Quiet, QuietAt, L!Open
<1> QED BY <1>1, <1>3, <1>4, <1>5 DEF BoardInv, BoardBase, FinHeld, Busy, Cast

LEMMA SocketMoves ==
  ASSUME BoardBase, NEW s \in L!Sockets, NEW x \in SocketState, sock' = [sock EXCEPT ![s] = x]
  PROVE  /\ sock' \in [L!Sockets -> SocketState] /\ sock'[s] = x
         /\ \A o \in L!Sockets \ {s} : sock'[o] = sock[o]
BY DEF BoardBase, SocketTypes

LEMMA FinMoves ==
  ASSUME BoardBase, NEW f \in Finalisers, NEW t \in Finalisation, fin' = [fin EXCEPT ![f] = t]
  PROVE  /\ fin' \in [Finalisers -> Finalisation] /\ fin'[f] = t
         /\ \A o \in Finalisers \ {f} : /\ fin'[o] = fin[o]
                                        /\ o \in L!Finalising' <=> o \in L!Finalising
         /\ f \in L!Finalising' <=> t.pc \notin {"idle", "end"}
<1>1. /\ fin' \in [Finalisers -> Finalisation] /\ fin'[f] = t
      /\ \A o \in Finalisers \ {f} : fin'[o] = fin[o]
  BY DEF BoardBase, SocketTypes
<1> QED BY <1>1 DEF L!Finalising

LEMMA TwoChannels ==
  /\ \A s : L!ChannelOf(s) \in L!Channels
  /\ \A s \in L!Sockets : s \notin Viewers => s \in Staff
  /\ \A s \in Viewers : L!ChannelOf(s) = "leaderboard"
  /\ \A s : s \notin Viewers => L!ChannelOf(s) = "admin"
  /\ L!Channels = {"leaderboard", "admin"}
BY DEF L!ChannelOf, L!Channels, L!Sockets

(* A step of one socket s, which leaves the others where they are.         *)
LEMMA SocketStep ==
  ASSUME BoardInv, NEW s \in L!Sockets, UNCHANGED <<results, fin>>, SocketTypes', InRoom(s)',
         \A o \in L!Sockets \ {s} :
           /\ sock'[o] = sock[o] /\ screen'[o] = screen[o] /\ (o \in gone' <=> o \in gone)
           /\ \A c \in L!Channels : o \in room'[c] <=> o \in room[c],
         gone \subseteq gone', stale \subseteq stale',
         sock'[s].pc # "new" \/ sock'[s] = sock[s],
         L!Finalising = {} /\ s \notin stale' => QuietAt(s)',
         L!Finalising # {} /\ s \in L!Connecting' => s \in stale',
         sock[s].pc \in {"open", "off"} =>
           sock'[s].pc \in {"open", "off"} /\ screen'[s] = screen[s],
         L!Finalising # {} /\ s \in L!Open' \ stale' => s \in Staff /\ screen'[s] = Blank
  PROVE  BoardInv'
<1>1. BoardBase /\ Quiet /\ Busy /\ \A f \in Finalisers : Cast(f)
  BY DEF BoardInv
<1>2. L!Finalising' = L!Finalising /\ Current' = Current
  BY DEF L!Finalising, Current, L!Board
<1>3. \A o \in L!Sockets : InRoom(o)'
  <2>1. ASSUME NEW o \in L!Sockets \ {s} PROVE InRoom(o)'
    <3>1. InRoom(o)
      BY <1>1 DEF BoardBase
    <3> QED BY <2>1, <3>1, TwoChannels DEF InRoom, L!ChannelOf
  <2> QED BY <2>1
<1>4. ASSUME NEW f \in Finalisers PROVE FinHeld(f)'
  <2>1. FinHeld(f) /\ fin[f] \in Finalisation
    BY <1>1 DEF BoardBase, SocketTypes
  <2>2. \A o \in fin[f].todo : o \in L!Sockets
    BY <2>1 DEF Finalisation
  <2> QED BY <1>2, <2>1, <2>2 DEF FinHeld, L!Boards
<1>5. BoardBase'
  BY <1>3, <1>4 DEF BoardBase
<1>6. \A o \in L!Sockets \ {s} : /\ o \in L!Open' <=> o \in L!Open
                                 /\ o \in L!Connecting' <=> o \in L!Connecting
  BY DEF L!Open, L!Connecting
<1>7. Quiet'
  <2> SUFFICES ASSUME L!Finalising = {}, NEW o \in L!Sockets \ stale' PROVE QuietAt(o)'
    BY <1>2 DEF Quiet
  <2>1. CASE o = s
    BY <2>1
  <2>2. CASE o # s
    <3>1. QuietAt(o)
      BY <1>1 DEF Quiet
    <3> QED BY <1>2, <1>6, <2>2, <3>1 DEF QuietAt, Shows
  <2> QED BY <2>1, <2>2
<1>8. Busy'
  <2>1. L!Connecting' \subseteq L!Sockets
    BY DEF L!Connecting
  <2> QED BY <1>1, <1>2, <1>6, <2>1 DEF Busy
<1>9. ASSUME NEW f \in Finalisers PROVE Cast(f)'
  <2> SUFFICES ASSUME f \in L!Finalising, fin[f].alone, fin[f].round = Newest
               PROVE  /\ fin[f].pc # "read" =>
                           fin[f].board = L!Board(Newest, [results[Newest] EXCEPT ![fin[f].student] = f])
                      /\ \A o \in fin[f].reached : /\ sock'[o].pc \in {"open", "off"}
                                                   /\ screen'[o] = fin[f].board
                      /\ \A o \in L!Open' \ stale' : Shown(f, o)'
    BY <1>2 DEF Cast, L!Board
  <2>1. /\ fin[f].pc # "read" =>
             fin[f].board = L!Board(Newest, [results[Newest] EXCEPT ![fin[f].student] = f])
        /\ \A o \in fin[f].reached : sock[o].pc \in {"open", "off"} /\ screen[o] = fin[f].board
        /\ \A o \in L!Open \ stale : Shown(f, o)
    BY <1>1 DEF Cast
  <2>2. fin[f].reached \subseteq L!Sockets
    BY <1>1 DEF BoardBase, SocketTypes, Finalisation
  <2>3. \A o \in fin[f].reached : sock'[o].pc \in {"open", "off"} /\ screen'[o] = fin[f].board
    BY <2>1, <2>2
  <2>4. ASSUME NEW o \in L!Open' \ stale' PROVE Shown(f, o)'
    <3>0. o \in L!Sockets
      BY <2>4 DEF L!Open
    <3>1. CASE o = s
      <4>1. s \in Staff /\ screen'[s] = Blank
        BY <2>4, <3>1
      <4>2. Shown(f, s)' <=> /\ fin[f].channel = L!ChannelOf(s) /\ fin[f].pc = "send" =>
                                  s \in fin[f].todo \/ Shows(s, fin[f].board)'
                             /\ fin[f].channel = "admin" /\ s \in Viewers => Shows(s, fin[f].board)'
                             /\ fin[f].pc = "commit" => Shows(s, fin[f].board)'
        BY DEF Shown, L!ChannelOf, Shows
      <4>3. Shows(s, fin[f].board)'
        BY <4>1 DEF Shows
      <4> QED BY <3>1, <4>2, <4>3
    <3>2. CASE o # s
      <4>1. Shown(f, o)
        BY <1>6, <2>1, <2>4, <3>0, <3>2
      <4> QED BY <3>0, <3>2, <4>1 DEF Shown, Shows, L!ChannelOf
    <3> QED BY <3>1, <3>2
  <2> QED BY <2>1, <2>3, <2>4
<1> QED BY <1>5, <1>7, <1>8, <1>9 DEF BoardInv

LEMMA BoardSocket ==
  ASSUME L!LeaderboardAssumption, BoardInv, NEW s \in L!Sockets,
         \/ L!Connect(s) \/ L!ConnectAdmin(s) \/ L!Snapshot(s)
         \/ L!Greet(s) \/ L!Hangup(s) \/ L!Disconnect(s)
  PROVE  BoardInv'
<1>1. BoardBase /\ Quiet /\ Busy /\ SocketTypes /\ InRoom(s)
  BY DEF BoardInv, BoardBase
<1>2. sock[s] \in SocketState
  BY <1>1 DEF SocketTypes
<1>3. Viewers \cap Staff = {} /\ Newest \in Rounds
  BY DEF L!LeaderboardAssumption
<1>4. CASE L!Connect(s)
  <2>1. PICK x : x = [sock[s] EXCEPT !.pc = "snapshot"]
    OBVIOUS
  <2>2. x \in SocketState /\ x.pc = "snapshot" /\ sock' = [sock EXCEPT ![s] = x]
    BY <1>2, <1>4, <2>1 DEF SocketState, L!Connect
  <2>3. /\ sock' \in [L!Sockets -> SocketState] /\ sock'[s] = x
        /\ \A o \in L!Sockets \ {s} : sock'[o] = sock[o]
    BY <1>1, <2>2, SocketMoves
  <2>4. /\ s \in Viewers /\ sock[s].pc = "new" /\ UNCHANGED <<results, fin, gone, screen>>
        /\ room' = [room EXCEPT !["leaderboard"] = @ \cup {s}]
        /\ stale' = IF L!Finalising # {} THEN stale \cup {s} ELSE stale
    BY <1>4 DEF L!Connect
  <2>5. /\ room' \in [L!Channels -> SUBSET L!Sockets] /\ s \in room'["leaderboard"]
        /\ room'["leaderboard"] \subseteq Viewers /\ room'["admin"] \subseteq Staff
        /\ \A o \in L!Sockets \ {s} : \A c \in L!Channels : o \in room'[c] <=> o \in room[c]
    BY <1>1, <2>4, TwoChannels DEF SocketTypes
  <2>6. SocketTypes'
    BY <1>1, <2>3, <2>4, <2>5 DEF SocketTypes, L!Boards
  <2>7. InRoom(s)'
    BY <2>2, <2>3, <2>4, <2>5, TwoChannels DEF InRoom, L!ChannelOf
  <2>8. QuietAt(s)' /\ s \notin L!Open'
    BY <2>2, <2>3 DEF QuietAt, L!Open
  <2> QED BY <2>2, <2>3, <2>4, <2>5, <2>6, <2>7, <2>8, SocketStep
<1>5. CASE L!ConnectAdmin(s) /\ sock' = [sock EXCEPT ![s].pc = "open"]
           /\ room' = [room EXCEPT !["admin"] = @ \cup {s}]
  <2>1. PICK x : x = [sock[s] EXCEPT !.pc = "open"]
    OBVIOUS
  <2>2. x \in SocketState /\ x.pc = "open" /\ sock' = [sock EXCEPT ![s] = x]
    BY <1>2, <1>5, <2>1 DEF SocketState
  <2>3. /\ sock' \in [L!Sockets -> SocketState] /\ sock'[s] = x
        /\ \A o \in L!Sockets \ {s} : sock'[o] = sock[o]
    BY <1>1, <2>2, SocketMoves
  <2>4. /\ s \in Staff /\ s \notin Viewers /\ sock[s].pc = "new" /\ screen[s] = Blank
        /\ UNCHANGED <<results, fin, gone, screen, stale>>
    BY <1>1, <1>3, <1>5 DEF L!ConnectAdmin, InRoom
  <2>5. /\ room' \in [L!Channels -> SUBSET L!Sockets] /\ s \in room'["admin"]
        /\ room'["leaderboard"] \subseteq Viewers /\ room'["admin"] \subseteq Staff
        /\ \A o \in L!Sockets \ {s} : \A c \in L!Channels : o \in room'[c] <=> o \in room[c]
    BY <1>1, <1>5, <2>4, TwoChannels DEF SocketTypes
  <2>6. SocketTypes'
    BY <1>1, <2>3, <2>4, <2>5 DEF SocketTypes, L!Boards
  <2>7. InRoom(s)'
    BY <2>2, <2>3, <2>4, <2>5, TwoChannels DEF InRoom, L!ChannelOf
  <2>8. QuietAt(s)' /\ s \notin L!Connecting'
    BY <2>2, <2>3, <2>4 DEF QuietAt, Shows, L!Connecting
  <2> QED BY <2>2, <2>3, <2>4, <2>5, <2>6, <2>7, <2>8, SocketStep
<1>6. CASE L!ConnectAdmin(s) /\ sock' = [sock EXCEPT ![s].pc = "off"] /\ UNCHANGED room
  <2>1. PICK x : x = [sock[s] EXCEPT !.pc = "off"]
    OBVIOUS
  <2>2. x \in SocketState /\ x.pc = "off" /\ sock' = [sock EXCEPT ![s] = x]
    BY <1>2, <1>6, <2>1 DEF SocketState
  <2>3. /\ sock' \in [L!Sockets -> SocketState] /\ sock'[s] = x
        /\ \A o \in L!Sockets \ {s} : sock'[o] = sock[o]
    BY <1>1, <2>2, SocketMoves
  <2>4. sock[s].pc = "new" /\ UNCHANGED <<results, fin, gone, screen, stale, room>>
    BY <1>6 DEF L!ConnectAdmin
  <2>5. SocketTypes'
    BY <1>1, <2>3, <2>4 DEF SocketTypes, L!Boards
  <2>6. InRoom(s)' /\ QuietAt(s)' /\ s \notin L!Connecting' /\ s \notin L!Open'
    BY <2>2, <2>3 DEF InRoom, QuietAt, L!Connecting, L!Open
  <2> QED BY <2>2, <2>3, <2>4, <2>5, <2>6, SocketStep
<1>7. CASE L!Snapshot(s)
  <2>1. PICK x : x = [pc |-> "greet", snap |-> L!Board(Newest, results[Newest])]
    OBVIOUS
  <2>2. L!Board(Newest, results[Newest]) \in L!Boards
    BY <1>1, <1>3 DEF L!Board, L!Boards, SocketTypes
  <2>3. x \in SocketState /\ x.pc = "greet" /\ x.snap = Current /\ sock' = [sock EXCEPT ![s] = x]
    BY <1>7, <2>1, <2>2 DEF SocketState, L!Snapshot, Current
  <2>4. /\ sock' \in [L!Sockets -> SocketState] /\ sock'[s] = x
        /\ \A o \in L!Sockets \ {s} : sock'[o] = sock[o]
    BY <1>1, <2>3, SocketMoves
  <2>5. sock[s].pc = "snapshot" /\ UNCHANGED <<results, fin, gone, screen, stale, room>>
    BY <1>7 DEF L!Snapshot
  <2>6. SocketTypes'
    BY <1>1, <2>4, <2>5 DEF SocketTypes, L!Boards
  <2>7. InRoom(s)'
    BY <1>1, <2>3, <2>4, <2>5 DEF InRoom, L!ChannelOf
  <2>8. QuietAt(s)' /\ s \notin L!Open'
    BY <2>3, <2>4, <2>5 DEF QuietAt, L!Open, Current, L!Board
  <2>9. L!Finalising # {} => s \in stale
    BY <1>1, <2>5 DEF Busy, L!Connecting
  <2> QED BY <2>3, <2>4, <2>5, <2>6, <2>7, <2>8, <2>9, SocketStep
<1>8. CASE L!Greet(s) /\ s \notin gone
  <2>1. PICK x : x = [pc |-> "open", snap |-> Blank]
    OBVIOUS
  <2>2. x \in SocketState /\ x.pc = "open" /\ sock' = [sock EXCEPT ![s] = x]
    BY <1>8, <2>1 DEF SocketState, L!Greet
  <2>3. /\ sock' \in [L!Sockets -> SocketState] /\ sock'[s] = x
        /\ \A o \in L!Sockets \ {s} : sock'[o] = sock[o]
    BY <1>1, <2>2, SocketMoves
  <2>4. /\ sock[s].pc = "greet" /\ UNCHANGED <<results, fin, gone, stale, room>>
        /\ screen' = [screen EXCEPT ![s] = sock[s].snap]
    BY <1>8 DEF L!Greet
  <2>5. /\ screen' \in [L!Sockets -> L!Boards \cup {Blank}] /\ screen'[s] = sock[s].snap
        /\ \A o \in L!Sockets \ {s} : screen'[o] = screen[o]
    BY <1>1, <1>2, <2>4 DEF SocketTypes, SocketState
  <2>6. SocketTypes'
    BY <1>1, <2>3, <2>4, <2>5 DEF SocketTypes, L!Boards
  <2>7. InRoom(s)'
    BY <1>1, <2>2, <2>3, <2>4 DEF InRoom, L!ChannelOf
  <2>8. s \notin L!Connecting'
    BY <2>2, <2>3 DEF L!Connecting
  <2>9. L!Finalising = {} /\ s \notin stale' => QuietAt(s)'
    <3> SUFFICES ASSUME L!Finalising = {}, s \notin stale PROVE QuietAt(s)'
      BY <2>4
    <3>1. sock[s].snap = Current
      BY <1>1, <2>4 DEF Quiet, QuietAt
    <3>2. screen'[s] = Current'
      BY <2>4, <2>5, <3>1 DEF Current, L!Board
    <3> QED BY <2>2, <2>3, <3>2 DEF QuietAt, Shows
  <2>10. L!Finalising # {} => s \in stale
    BY <1>1, <2>4 DEF Busy, L!Connecting
  <2> QED BY <2>2, <2>3, <2>4, <2>5, <2>6, <2>7, <2>8, <2>9, <2>10, SocketStep
<1>9. CASE L!Greet(s) /\ s \in gone
  <2>1. PICK x : x = [pc |-> "off", snap |-> Blank]
    OBVIOUS
  <2>2. x \in SocketState /\ x.pc = "off" /\ sock' = [sock EXCEPT ![s] = x]
    BY <1>9, <2>1 DEF SocketState, L!Greet
  <2>3. /\ sock' \in [L!Sockets -> SocketState] /\ sock'[s] = x
        /\ \A o \in L!Sockets \ {s} : sock'[o] = sock[o]
    BY <1>1, <2>2, SocketMoves
  <2>4. /\ sock[s].pc = "greet" /\ UNCHANGED <<results, fin, gone, stale, screen>>
        /\ room' \in {room, [room EXCEPT !["leaderboard"] = @ \ {s}]}
    BY <1>9 DEF L!Greet
  <2>5. /\ room' \in [L!Channels -> SUBSET L!Sockets]
        /\ room'["leaderboard"] \subseteq Viewers /\ room'["admin"] \subseteq Staff
        /\ \A o \in L!Sockets \ {s} : \A c \in L!Channels : o \in room'[c] <=> o \in room[c]
    BY <1>1, <2>4, TwoChannels DEF SocketTypes
  <2>6. SocketTypes'
    BY <1>1, <2>3, <2>4, <2>5 DEF SocketTypes, L!Boards
  <2>7. InRoom(s)' /\ QuietAt(s)' /\ s \notin L!Connecting' /\ s \notin L!Open'
    BY <2>2, <2>3 DEF InRoom, QuietAt, L!Connecting, L!Open
  <2> QED BY <2>2, <2>3, <2>4, <2>5, <2>6, <2>7, SocketStep
<1>10. CASE L!Hangup(s)
  <2>1. /\ s \notin gone /\ sock[s].pc \notin {"new", "off"} /\ gone' = gone \cup {s}
        /\ UNCHANGED <<results, fin, sock, room, screen, stale>>
    BY <1>10 DEF L!Hangup
  <2>2. SocketTypes'
    BY <1>1, <2>1 DEF SocketTypes, L!Boards
  <2>3. InRoom(s)'
    BY <1>1, <2>1 DEF InRoom
  <2>4. L!Finalising = {} /\ s \notin stale' => QuietAt(s)'
    BY <1>1, <2>1 DEF Quiet, QuietAt, L!Open, Current, L!Board
  <2>5. L!Finalising # {} /\ s \in L!Connecting' => s \in stale'
    BY <1>1, <2>1 DEF Busy, L!Connecting
  <2>6. s \notin L!Open'
    BY <2>1 DEF L!Open
  <2> QED BY <2>1, <2>2, <2>3, <2>4, <2>5, <2>6, SocketStep
<1>11. CASE L!Disconnect(s)
  <2>1. PICK x : x = [sock[s] EXCEPT !.pc = "off"]
    OBVIOUS
  <2>2. x \in SocketState /\ x.pc = "off" /\ sock' = [sock EXCEPT ![s] = x]
    BY <1>2, <1>11, <2>1 DEF SocketState, L!Disconnect
  <2>3. /\ sock' \in [L!Sockets -> SocketState] /\ sock'[s] = x
        /\ \A o \in L!Sockets \ {s} : sock'[o] = sock[o]
    BY <1>1, <2>2, SocketMoves
  <2>4. /\ sock[s].pc = "open" /\ UNCHANGED <<results, fin, gone, stale, screen>>
        /\ room' = [room EXCEPT ![L!ChannelOf(s)] = @ \ {s}]
    BY <1>11 DEF L!Disconnect
  <2>5. /\ room' \in [L!Channels -> SUBSET L!Sockets]
        /\ room'["leaderboard"] \subseteq Viewers /\ room'["admin"] \subseteq Staff
        /\ \A o \in L!Sockets \ {s} : \A c \in L!Channels : o \in room'[c] <=> o \in room[c]
    BY <1>1, <2>4, TwoChannels DEF SocketTypes
  <2>6. SocketTypes'
    BY <1>1, <2>3, <2>4, <2>5 DEF SocketTypes, L!Boards
  <2>7. InRoom(s)' /\ QuietAt(s)' /\ s \notin L!Connecting' /\ s \notin L!Open'
    BY <2>2, <2>3 DEF InRoom, QuietAt, L!Connecting, L!Open
  <2> QED BY <2>2, <2>3, <2>4, <2>5, <2>6, <2>7, SocketStep
<1>12. L!ConnectAdmin(s) => \/ /\ sock' = [sock EXCEPT ![s].pc = "open"]
                               /\ room' = [room EXCEPT !["admin"] = @ \cup {s}]
                            \/ sock' = [sock EXCEPT ![s].pc = "off"] /\ UNCHANGED room
  BY DEF L!ConnectAdmin
<1> QED BY <1>4, <1>5, <1>6, <1>7, <1>8, <1>9, <1>10, <1>11, <1>12

(* A step of one finalisation, short of its end.                           *)
LEMMA FinStep ==
  ASSUME BoardInv, NEW f \in L!Finalising, NEW t \in Finalisation, fin' = [fin EXCEPT ![f] = t],
         t.pc \notin {"idle", "end"}, t.alone = fin[f].alone,
         UNCHANGED <<results, sock, gone, stale>>, SocketTypes',
         \A s \in L!Sockets : InRoom(s)', FinHeld(f)', Cast(f)'
  PROVE  BoardInv'
<1>1. BoardBase /\ Quiet /\ Busy /\ \A o \in Finalisers : Cast(o)
  BY DEF BoardInv
<1>2. f \in Finalisers /\ L!Finalising \subseteq Finalisers /\ L!Finalising' \subseteq Finalisers
  BY DEF L!Finalising
<1>3. /\ fin'[f] = t /\ f \in L!Finalising'
      /\ \A o \in Finalisers \ {f} : /\ fin'[o] = fin[o]
                                     /\ o \in L!Finalising' <=> o \in L!Finalising
  BY <1>1, <1>2, FinMoves
<1>4. L!Finalising' = L!Finalising
  BY <1>2, <1>3
<1>5. ASSUME NEW o \in Finalisers \ {f} PROVE FinHeld(o)' /\ Cast(o)'
  <2>1. FinHeld(o)
    BY <1>1 DEF BoardBase
  <2>2. FinHeld(o)'
    BY <1>3, <1>4, <2>1 DEF FinHeld, L!Boards
  <2>3. o \in L!Finalising => ~fin[o].alone
    BY <2>1 DEF FinHeld
  <2> QED BY <1>3, <2>2, <2>3 DEF Cast
<1>6. BoardBase'
  BY <1>5 DEF BoardBase
<1>7. Quiet' /\ Busy'
  BY <1>1, <1>3, <1>4 DEF Quiet, Busy, L!Connecting
<1> QED BY <1>5, <1>6, <1>7 DEF BoardInv

LEMMA BoardRead ==
  ASSUME L!LeaderboardAssumption, BoardInv, NEW f \in Finalisers, L!ReadBoard(f)
  PROVE  BoardInv'
<1>1. BoardBase /\ SocketTypes /\ fin[f] \in Finalisation /\ FinHeld(f)
  BY DEF BoardInv, BoardBase, SocketTypes
<1>2. f \in L!Finalising /\ fin[f].pc = "read" /\ UNCHANGED <<results, sock, gone, room, screen, stale>>
  BY DEF L!ReadBoard, L!Finalising
<1>3. PICK b : b = L!Board(fin[f].round, [results[fin[f].round] EXCEPT ![fin[f].student] = f])
  OBVIOUS
<1>4. b \in L!Boards
  <2>1. fin[f].round \in Rounds
    BY <1>1 DEF Finalisation
  <2>2. results[fin[f].round] \in [Students -> Finalisers \cup {0}]
    BY <1>1, <2>1 DEF SocketTypes
  <2>3. [results[fin[f].round] EXCEPT ![fin[f].student] = f] \in [Students -> Finalisers \cup {0}]
    BY <2>2
  <2> QED BY <1>3, <2>1, <2>3 DEF L!Board, L!Boards
<1>5. PICK t : t = [fin[f] EXCEPT !.pc = "copy", !.board = b]
  OBVIOUS
<1>6. /\ t \in Finalisation /\ t.pc = "copy" /\ t.board = b
      /\ t.alone = fin[f].alone /\ t.round = fin[f].round /\ t.student = fin[f].student
      /\ t.channel = fin[f].channel /\ t.todo = fin[f].todo /\ t.dead = fin[f].dead
      /\ t.reached = fin[f].reached
  BY <1>1, <1>4, <1>5 DEF Finalisation
<1>7. fin' = [fin EXCEPT ![f] = t]
  BY <1>1, <1>3, <1>5 DEF L!ReadBoard, SocketTypes
<1>8. fin' \in [Finalisers -> Finalisation] /\ fin'[f] = t
      /\ \A o \in Finalisers \ {f} : o \in L!Finalising' <=> o \in L!Finalising
  BY <1>1, <1>6, <1>7, FinMoves
<1>9. SocketTypes'
  BY <1>1, <1>2, <1>8 DEF SocketTypes, L!Boards
<1>10. \A s \in L!Sockets : InRoom(s)'
  BY <1>1, <1>2 DEF BoardBase, InRoom, L!ChannelOf
<1>11. L!Finalising' = L!Finalising
  BY <1>2, <1>6, <1>8 DEF L!Finalising
<1>12. FinHeld(f)'
  BY <1>1, <1>2, <1>4, <1>6, <1>8, <1>11 DEF FinHeld, L!Boards
<1>13. t.reached = {} /\ t.channel = "leaderboard"
  BY <1>1, <1>2, <1>6 DEF FinHeld
<1>14. Cast(f)'
  <2>1. \A s : Shown(f, s)'
    BY <1>6, <1>8, <1>13 DEF Shown
  <2>2. t.round = Newest => t.board = L!Board(Newest, [results'[Newest] EXCEPT ![t.student] = f])
    BY <1>2, <1>3, <1>6
  <2> QED BY <1>8, <1>13, <2>1, <2>2 DEF Cast, L!Board
<1> QED BY <1>2, <1>6, <1>7, <1>9, <1>10, <1>12, <1>14, FinStep

LEMMA BoardCopy ==
  ASSUME L!LeaderboardAssumption, BoardInv, NEW f \in Finalisers, L!CopyRoom(f)
  PROVE  BoardInv'
<1>1. BoardBase /\ SocketTypes /\ fin[f] \in Finalisation /\ FinHeld(f) /\ Cast(f)
  BY DEF BoardInv, BoardBase, SocketTypes
<1>2. f \in L!Finalising /\ fin[f].pc = "copy" /\ UNCHANGED <<results, sock, gone, room, screen, stale>>
  BY DEF L!CopyRoom, L!Finalising
<1>3. PICK todo \in SUBSET L!Sockets : todo = room[fin[f].channel]
  BY <1>1 DEF SocketTypes, Finalisation
<1>4. PICK t : t = [fin[f] EXCEPT !.pc = "send", !.todo = todo, !.dead = {}]
  OBVIOUS
<1>5. /\ t \in Finalisation /\ t.pc = "send" /\ t.board = fin[f].board
      /\ t.alone = fin[f].alone /\ t.round = fin[f].round /\ t.student = fin[f].student
      /\ t.channel = fin[f].channel /\ t.todo = todo /\ t.dead = {}
      /\ t.reached = fin[f].reached
  BY <1>1, <1>3, <1>4 DEF Finalisation
<1>6. fin' = [fin EXCEPT ![f] = t]
  BY <1>1, <1>3, <1>4 DEF L!CopyRoom, SocketTypes
<1>7. fin' \in [Finalisers -> Finalisation] /\ fin'[f] = t
      /\ \A o \in Finalisers \ {f} : o \in L!Finalising' <=> o \in L!Finalising
  BY <1>1, <1>5, <1>6, FinMoves
<1>8. SocketTypes'
  BY <1>1, <1>2, <1>7 DEF SocketTypes, L!Boards
<1>9. \A s \in L!Sockets : InRoom(s)'
  BY <1>1, <1>2 DEF BoardBase, InRoom, L!ChannelOf
<1>10. L!Finalising' = L!Finalising
  BY <1>2, <1>5, <1>7 DEF L!Finalising
<1>11. /\ todo \subseteq IF t.channel = "leaderboard" THEN Viewers ELSE Staff
       /\ \A s \in todo : sock[s].pc # "new"
  <2>1. t.channel \in {"leaderboard", "admin"} /\ t.channel \in L!Channels
    BY <1>5, TwoChannels DEF Finalisation
  <2>2. \A s \in todo : sock[s].pc # "new"
    BY <1>1, <1>3, <1>5, <2>1 DEF BoardBase, InRoom
  <2> QED BY <1>1, <1>3, <1>5, <2>1, <2>2 DEF SocketTypes
<1>12. FinHeld(f)'
  BY <1>1, <1>2, <1>5, <1>7, <1>10, <1>11 DEF FinHeld, L!Boards
<1>13. Cast(f)'
  <2> SUFFICES ASSUME t.alone, t.round = Newest
               PROVE  /\ t.board = L!Board(Newest, [results[Newest] EXCEPT ![t.student] = f])
                      /\ \A s \in t.reached : sock[s].pc \in {"open", "off"} /\ screen[s] = t.board
                      /\ \A s \in L!Open \ stale : Shown(f, s)'
    BY <1>2, <1>7 DEF Cast, L!Board, L!Open
  <2>1. /\ t.board = L!Board(Newest, [results[Newest] EXCEPT ![t.student] = f])
        /\ \A s \in t.reached : sock[s].pc \in {"open", "off"} /\ screen[s] = t.board
        /\ \A s \in L!Open \ stale : Shown(f, s)
    BY <1>1, <1>2, <1>5 DEF Cast
  <2>2. ASSUME NEW s \in L!Open \ stale PROVE Shown(f, s)'
    <3>1. s \in room[L!ChannelOf(s)]
      BY <1>1, <2>2 DEF BoardBase, InRoom, L!Open
    <3> QED BY <1>2, <1>3, <1>5, <1>7, <2>1, <2>2, <3>1 DEF Shown, Shows, L!ChannelOf
  <2> QED BY <2>1, <2>2
<1> QED BY <1>2, <1>5, <1>6, <1>8, <1>9, <1>12, <1>13, FinStep

LEMMA BoardSend ==
  ASSUME L!LeaderboardAssumption, BoardInv, NEW f \in Finalisers, L!Send(f)
  PROVE  BoardInv'
<1>1. BoardBase /\ SocketTypes /\ fin[f] \in Finalisation /\ FinHeld(f) /\ Cast(f)
  BY DEF BoardInv, BoardBase, SocketTypes
<1>2. f \in L!Finalising /\ fin[f].pc = "send" /\ UNCHANGED <<results, sock, gone, room, stale>>
  BY DEF L!Send, L!Finalising
<1>3. PICK s \in fin[f].todo :
        IF s \in gone
        THEN /\ fin' = [fin EXCEPT ![f].todo = @ \ {s}, ![f].dead = @ \cup {s}]
             /\ UNCHANGED screen
        ELSE /\ fin' = [fin EXCEPT ![f].todo = @ \ {s},
                  ![f].reached = IF sock[s].pc = "open" THEN @ \cup {s} ELSE @]
             /\ screen' = [screen EXCEPT ![s] = fin[f].board]
  BY DEF L!Send
<1>4. s \in L!Sockets /\ sock[s].pc # "new" /\ fin[f].board \in L!Boards
  BY <1>1, <1>2 DEF FinHeld, Finalisation
<1>5. PICK dead \in SUBSET L!Sockets : dead = IF s \in gone THEN fin[f].dead \cup {s} ELSE fin[f].dead
  BY <1>1, <1>4 DEF Finalisation
<1>6. PICK reached \in SUBSET L!Sockets :
        reached = IF s \notin gone /\ sock[s].pc = "open" THEN fin[f].reached \cup {s}
                  ELSE fin[f].reached
  BY <1>1, <1>4 DEF Finalisation
<1>7. PICK t : t = [fin[f] EXCEPT !.todo = @ \ {s}, !.dead = dead, !.reached = reached]
  OBVIOUS
<1>8. /\ t \in Finalisation /\ t.pc = "send" /\ t.board = fin[f].board
      /\ t.alone = fin[f].alone /\ t.round = fin[f].round /\ t.student = fin[f].student
      /\ t.channel = fin[f].channel /\ t.todo = fin[f].todo \ {s} /\ t.dead = dead
      /\ t.reached = reached
  BY <1>1, <1>2, <1>7 DEF Finalisation
<1>9. fin' = [fin EXCEPT ![f] = t]
  <2>1. CASE s \in gone
    <3>1. fin' = [fin EXCEPT ![f] = [fin[f] EXCEPT !.todo = @ \ {s}, !.dead = dead]]
      BY <1>1, <1>3, <1>5, <2>1 DEF SocketTypes
    <3>2. t = [fin[f] EXCEPT !.todo = @ \ {s}, !.dead = dead]
      BY <1>1, <1>6, <1>7, <2>1 DEF Finalisation
    <3> QED BY <3>1, <3>2
  <2>2. CASE s \notin gone
    <3>1. fin' = [fin EXCEPT ![f] = [fin[f] EXCEPT !.todo = @ \ {s}, !.reached = reached]]
      BY <1>1, <1>3, <1>6, <2>2 DEF SocketTypes
    <3>2. t = [fin[f] EXCEPT !.todo = @ \ {s}, !.reached = reached]
      BY <1>1, <1>5, <1>7, <2>2 DEF Finalisation
    <3> QED BY <3>1, <3>2
  <2> QED BY <2>1, <2>2
<1>10. /\ screen' \in [L!Sockets -> L!Boards \cup {Blank}]
       /\ \A o \in L!Sockets \ {s} : screen'[o] = screen[o]
       /\ IF s \in gone THEN screen'[s] = screen[s] ELSE screen'[s] = t.board
  BY <1>1, <1>3, <1>4, <1>8 DEF SocketTypes
<1>11. fin' \in [Finalisers -> Finalisation] /\ fin'[f] = t
       /\ \A o \in Finalisers \ {f} : o \in L!Finalising' <=> o \in L!Finalising
  BY <1>1, <1>8, <1>9, FinMoves
<1>12. SocketTypes'
  BY <1>1, <1>2, <1>10, <1>11 DEF SocketTypes, L!Boards
<1>13. \A o \in L!Sockets : InRoom(o)'
  BY <1>1, <1>2, <1>4, <1>10 DEF BoardBase, InRoom, L!ChannelOf
<1>14. L!Finalising' = L!Finalising
  BY <1>2, <1>8, <1>11 DEF L!Finalising
<1>15. FinHeld(f)'
  <2>1. t.dead \subseteq gone
    BY <1>1, <1>2, <1>5, <1>8 DEF FinHeld
  <2>2. /\ t.todo \subseteq fin[f].todo
        /\ t.student \in Students /\ t.board \in L!Boards
        /\ fin[f].todo \subseteq IF t.channel = "leaderboard" THEN Viewers ELSE Staff
        /\ \A o \in fin[f].todo : sock[o].pc # "new"
        /\ t.alone => L!Finalising = {f}
    BY <1>1, <1>2, <1>8 DEF FinHeld
  <2> QED BY <1>2, <1>8, <1>11, <1>14, <2>1, <2>2 DEF FinHeld, L!Boards
<1>16. Cast(f)'
  <2> SUFFICES ASSUME t.alone, t.round = Newest
               PROVE  /\ t.board = L!Board(Newest, [results[Newest] EXCEPT ![t.student] = f])
                      /\ \A o \in t.reached : sock[o].pc \in {"open", "off"} /\ screen'[o] = t.board
                      /\ \A o \in L!Open \ stale : Shown(f, o)'
    BY <1>2, <1>11 DEF Cast, L!Board, L!Open
  <2>1. /\ t.board = L!Board(Newest, [results[Newest] EXCEPT ![t.student] = f])
        /\ \A o \in fin[f].reached : sock[o].pc \in {"open", "off"} /\ screen[o] = t.board
        /\ \A o \in L!Open \ stale : Shown(f, o)
    BY <1>1, <1>2, <1>8 DEF Cast
  <2>2. \A o \in t.reached : sock[o].pc \in {"open", "off"} /\ screen'[o] = t.board
    BY <1>6, <1>8, <1>10, <2>1
  <2>3. ASSUME NEW o \in L!Open \ stale PROVE Shown(f, o)'
    <3>1. o \in L!Sockets /\ o \notin gone
      BY <2>3 DEF L!Open
    <3>2. CASE o = s
      <4>1. Shows(o, t.board)'
        BY <1>8, <1>10, <1>11, <3>1, <3>2 DEF Shows
      <4> QED BY <1>11, <4>1 DEF Shown, Shows
    <3>3. CASE o # s
      <4>1. Shown(f, o)
        BY <2>1, <2>3
      <4> QED BY <1>2, <1>8, <1>10, <1>11, <3>1, <3>3, <4>1 DEF Shown, Shows, L!ChannelOf
    <3> QED BY <3>2, <3>3
  <2> QED BY <2>1, <2>2, <2>3
<1> QED BY <1>2, <1>8, <1>9, <1>12, <1>13, <1>15, <1>16, FinStep

LEMMA BoardEndOfRoom ==
  ASSUME L!LeaderboardAssumption, BoardInv, NEW f \in Finalisers, L!EndOfRoom(f)
  PROVE  BoardInv'
<1>1. BoardBase /\ SocketTypes /\ fin[f] \in Finalisation /\ FinHeld(f) /\ Cast(f)
  BY DEF BoardInv, BoardBase, SocketTypes
<1>2. /\ f \in L!Finalising /\ fin[f].pc = "send" /\ fin[f].todo = {}
      /\ room' = [room EXCEPT ![fin[f].channel] = @ \ fin[f].dead]
      /\ UNCHANGED <<results, sock, gone, screen, stale>>
  BY DEF L!EndOfRoom, L!Finalising
<1>3. PICK t : t = IF fin[f].channel = "leaderboard"
                   THEN [fin[f] EXCEPT !.pc = "copy", !.channel = "admin"]
                   ELSE [fin[f] EXCEPT !.pc = "commit"]
  OBVIOUS
<1>4. /\ t \in Finalisation /\ t.board = fin[f].board
      /\ t.alone = fin[f].alone /\ t.round = fin[f].round /\ t.student = fin[f].student
      /\ t.todo = {} /\ t.dead = fin[f].dead /\ t.reached = fin[f].reached
      /\ t.channel = "admin" /\ t.pc = IF fin[f].channel = "leaderboard" THEN "copy" ELSE "commit"
  <2>1. fin[f].channel \in {"leaderboard", "admin"}
    BY <1>1 DEF Finalisation, L!Channels
  <2>2. CASE fin[f].channel = "leaderboard"
    <3>1. t = [fin[f] EXCEPT !.pc = "copy", !.channel = "admin"]
      BY <1>3, <2>2
    <3> QED BY <1>1, <1>2, <2>2, <3>1 DEF Finalisation, L!Channels
  <2>3. CASE fin[f].channel = "admin"
    <3>1. t = [fin[f] EXCEPT !.pc = "commit"]
      BY <1>3, <2>3
    <3> QED BY <1>1, <1>2, <2>3, <3>1 DEF Finalisation, L!Channels
  <2> QED BY <2>1, <2>2, <2>3
<1>5. fin' = [fin EXCEPT ![f] = t]
  <2>1. CASE fin[f].channel = "leaderboard"
    BY <1>1, <1>3, <2>1 DEF L!EndOfRoom, SocketTypes
  <2>2. CASE fin[f].channel # "leaderboard"
    BY <1>1, <1>3, <2>2 DEF L!EndOfRoom, SocketTypes
  <2> QED BY <2>1, <2>2
<1>6. fin' \in [Finalisers -> Finalisation] /\ fin'[f] = t
      /\ \A o \in Finalisers \ {f} : o \in L!Finalising' <=> o \in L!Finalising
  BY <1>1, <1>4, <1>5, FinMoves
<1>7. /\ room' \in [L!Channels -> SUBSET L!Sockets]
      /\ \A c \in L!Channels : room'[c] \subseteq room[c] /\ room[c] \ gone \subseteq room'[c]
  <2>1. fin[f].dead \subseteq gone /\ fin[f].channel \in L!Channels
    BY <1>1, <1>2 DEF FinHeld, Finalisation
  <2> QED BY <1>1, <1>2, <2>1 DEF SocketTypes
<1>8. SocketTypes'
  BY <1>1, <1>2, <1>6, <1>7, TwoChannels DEF SocketTypes, L!Boards
<1>9. \A s \in L!Sockets : InRoom(s)'
  <2>1. ASSUME NEW s \in L!Sockets PROVE InRoom(s)'
    <3>1. InRoom(s) /\ L!ChannelOf(s) \in L!Channels
      BY <1>1, TwoChannels DEF BoardBase
    <3> QED BY <1>2, <1>7, <3>1 DEF InRoom, L!ChannelOf
  <2> QED BY <2>1
<1>10. L!Finalising' = L!Finalising
  BY <1>2, <1>4, <1>6 DEF L!Finalising
<1>11. FinHeld(f)'
  BY <1>1, <1>2, <1>4, <1>6, <1>10 DEF FinHeld, L!Boards
<1>12. Cast(f)'
  <2> SUFFICES ASSUME t.alone, t.round = Newest
               PROVE  /\ t.board = L!Board(Newest, [results[Newest] EXCEPT ![t.student] = f])
                      /\ \A s \in t.reached : sock[s].pc \in {"open", "off"} /\ screen[s] = t.board
                      /\ \A s \in L!Open \ stale : Shown(f, s)'
    BY <1>2, <1>6 DEF Cast, L!Board, L!Open
  <2>1. /\ t.board = L!Board(Newest, [results[Newest] EXCEPT ![t.student] = f])
        /\ \A s \in t.reached : sock[s].pc \in {"open", "off"} /\ screen[s] = t.board
        /\ \A s \in L!Open \ stale : Shown(f, s)
    BY <1>1, <1>2, <1>4 DEF Cast
  <2>2. ASSUME NEW s \in L!Open \ stale PROVE Shown(f, s)'
    <3>1. s \in L!Sockets
      BY <2>2 DEF L!Open
    <3>2. /\ fin[f].channel = L!ChannelOf(s) => Shows(s, t.board)
          /\ fin[f].channel = "admin" /\ s \in Viewers => Shows(s, t.board)
      BY <1>2, <1>4, <2>1, <2>2 DEF Shown
    <3>3. fin[f].channel \in {"leaderboard", "admin"}
      BY <1>1, TwoChannels DEF Finalisation
    <3>4. CASE fin[f].channel = "leaderboard"
      <4>1. s \in Viewers => Shows(s, t.board)
        BY <3>2, <3>4, TwoChannels
      <4> QED BY <1>2, <1>4, <1>6, <3>4, <4>1 DEF Shown, Shows
    <3>5. CASE fin[f].channel = "admin"
      <4>1. Shows(s, t.board)
        BY <3>1, <3>2, <3>5, TwoChannels
      <4> QED BY <1>2, <1>6, <4>1 DEF Shown, Shows
    <3> QED BY <3>3, <3>4, <3>5
  <2> QED BY <2>1, <2>2
<1>13. t.pc \notin {"idle", "end"}
  BY <1>4
<1> QED BY <1>2, <1>4, <1>5, <1>8, <1>9, <1>11, <1>12, <1>13, FinStep

(* The end of one: every socket may be stale, or none but those it has not *)
(* reached.                                                                *)
LEMMA FinEnds ==
  ASSUME L!LeaderboardAssumption, BoardInv, NEW f \in L!Finalising,
         fin' = [fin EXCEPT ![f] = [L!NoFin EXCEPT !.pc = "end"]],
         UNCHANGED <<sock, gone, room, screen>>,
         results' \in [Rounds -> [Students -> Finalisers \cup {0}]],
         \/ stale' = L!Sockets
         \/ /\ L!Finalising = {f} /\ stale' \subseteq L!Sockets
            /\ \A s \in L!Sockets \ stale' : QuietAt(s)'
  PROVE  BoardInv'
<1>1. BoardBase /\ SocketTypes
  BY DEF BoardInv, BoardBase
<1>2. f \in Finalisers /\ L!Finalising \subseteq Finalisers /\ L!Finalising' \subseteq Finalisers
  BY DEF L!Finalising
<1>3. PICK t : t = [L!NoFin EXCEPT !.pc = "end"]
  OBVIOUS
<1>4. t \in Finalisation /\ t.pc = "end" /\ t.alone = TRUE
  BY <1>3 DEF L!NoFin, Finalisation, L!Channels, L!LeaderboardAssumption
<1>5. /\ fin' \in [Finalisers -> Finalisation] /\ fin'[f] = t /\ f \notin L!Finalising'
      /\ \A o \in Finalisers \ {f} : /\ fin'[o] = fin[o]
                                     /\ o \in L!Finalising' <=> o \in L!Finalising
  BY <1>1, <1>2, <1>3, <1>4, FinMoves
<1>6. L!Finalising' = L!Finalising \ {f}
  BY <1>2, <1>5
<1>7. SocketTypes'
  BY <1>1, <1>5 DEF SocketTypes, L!Boards
<1>8. \A s \in L!Sockets : InRoom(s)'
  BY <1>1 DEF BoardBase, InRoom, L!ChannelOf
<1>9. ASSUME NEW o \in Finalisers PROVE FinHeld(o)' /\ Cast(o)'
  <2>1. CASE o = f
    BY <1>5, <2>1 DEF FinHeld, Cast
  <2>2. CASE o # f
    <3>1. FinHeld(o)
      BY <1>1 DEF BoardBase
    <3>2. o \in L!Finalising => ~fin[o].alone
      BY <2>2, <3>1 DEF FinHeld
    <3> QED BY <1>5, <2>2, <3>1, <3>2 DEF FinHeld, Cast, L!Boards
  <2> QED BY <2>1, <2>2
<1>10. Busy'
  <2>1. L!Connecting' \subseteq L!Sockets
    BY DEF L!Connecting
  <2>2. L!Finalising = {f} => L!Finalising' = {}
    BY <1>6
  <2> QED BY <2>1, <2>2 DEF Busy
<1>11. Quiet'
  BY DEF Quiet
<1> QED BY <1>7, <1>8, <1>9, <1>10, <1>11 DEF BoardInv, BoardBase

LEMMA BoardCommit ==
  ASSUME L!LeaderboardAssumption, BoardInv, NEW f \in Finalisers, L!Commit(f)
  PROVE  BoardInv'
<1>1. BoardBase /\ SocketTypes /\ fin[f] \in Finalisation /\ FinHeld(f) /\ Cast(f)
  BY DEF BoardInv, BoardBase, SocketTypes
<1>2. /\ f \in L!Finalising /\ fin[f].pc = "commit"
      /\ fin' = [fin EXCEPT ![f] = [L!NoFin EXCEPT !.pc = "end"]]
      /\ UNCHANGED <<sock, gone, room, screen>>
      /\ results' = [results EXCEPT ![fin[f].round][fin[f].student] = f]
      /\ stale' = IF fin[f].alone /\ fin[f].round = Newest THEN stale \ fin[f].reached ELSE L!Sockets
  BY DEF L!Commit, L!Finalising
<1>3. PICK rnd \in Rounds, student \in Students : rnd = fin[f].round /\ student = fin[f].student
  BY <1>1, <1>2 DEF FinHeld, Finalisation
<1>4. PICK scores : scores = [results[rnd] EXCEPT ![student] = f]
  OBVIOUS
<1>5. scores \in [Students -> Finalisers \cup {0}]
  <2>1. results[rnd] \in [Students -> Finalisers \cup {0}]
    BY <1>1 DEF SocketTypes
  <2> QED BY <1>4, <2>1
<1>6. results' = [results EXCEPT ![rnd] = scores]
  BY <1>2, <1>3, <1>4
<1>7. results' \in [Rounds -> [Students -> Finalisers \cup {0}]] /\ results'[rnd] = scores
  BY <1>1, <1>5, <1>6 DEF SocketTypes
<1>8. CASE ~(fin[f].alone /\ fin[f].round = Newest)
  BY <1>2, <1>7, <1>8, FinEnds
<1>9. CASE fin[f].alone /\ fin[f].round = Newest
  <2>1. L!Finalising = {f} /\ stale' = stale \ fin[f].reached /\ stale' \subseteq L!Sockets
    BY <1>1, <1>2, <1>9 DEF FinHeld, SocketTypes
  <2>2. /\ fin[f].board = L!Board(Newest, scores)
        /\ \A s \in fin[f].reached : sock[s].pc \in {"open", "off"} /\ screen[s] = fin[f].board
        /\ \A s \in L!Open \ stale : Shown(f, s)
    BY <1>1, <1>2, <1>3, <1>4, <1>9 DEF Cast
  <2>3. Current' = fin[f].board
    BY <1>3, <1>7, <1>9, <2>2 DEF Current, L!Board
  <2>4. L!Connecting \subseteq stale
    BY <2>1 DEF BoardInv, Busy
  <2>5. ASSUME NEW s \in L!Sockets \ stale' PROVE QuietAt(s)'
    <3>1. sock[s].pc # "greet"
      BY <2>1, <2>2, <2>4, <2>5 DEF L!Connecting
    <3>2. ASSUME s \in L!Open PROVE Shows(s, fin[f].board)
      <4>1. CASE s \in fin[f].reached
        BY <2>2, <4>1 DEF Shows
      <4>2. CASE s \notin stale
        BY <1>2, <2>2, <3>2, <4>2 DEF Shown
      <4> QED BY <2>1, <2>5, <4>1, <4>2
    <3> QED BY <1>2, <2>3, <3>1, <3>2 DEF QuietAt, Shows, L!Open
  <2> QED BY <1>2, <1>7, <2>1, <2>5, FinEnds
<1> QED BY <1>8, <1>9

LEMMA BoardFails ==
  ASSUME L!LeaderboardAssumption, BoardInv, NEW f \in Finalisers, L!FailFinalisation(f)
  PROVE  BoardInv'
<1>1. results \in [Rounds -> [Students -> Finalisers \cup {0}]]
  BY DEF BoardInv, BoardBase, SocketTypes
<1> QED BY <1>1, FinEnds DEF L!FailFinalisation

LEMMA BoardFinalize ==
  ASSUME L!LeaderboardAssumption, BoardInv, NEW f \in Finalisers, L!Finalize(f)
  PROVE  BoardInv'
<1>1. BoardBase /\ SocketTypes
  BY DEF BoardInv, BoardBase
<1>2. PICK rnd \in Rounds, student \in Students :
        fin' = [o \in Finalisers |->
            IF o = f THEN [L!NoFin EXCEPT !.pc = "read", !.round = rnd, !.student = student,
                                          !.alone = L!Finalising = {}]
            ELSE IF o \in L!Finalising THEN [fin[o] EXCEPT !.alone = FALSE] ELSE fin[o]]
  BY DEF L!Finalize
<1>3. /\ fin[f].pc = "idle" /\ f \notin L!Finalising
      /\ stale' = stale \cup L!Connecting /\ UNCHANGED <<results, sock, gone, room, screen>>
  BY DEF L!Finalize, L!Finalising
<1>4. PICK t : t = [L!NoFin EXCEPT !.pc = "read", !.round = rnd, !.student = student,
                                   !.alone = L!Finalising = {}]
  OBVIOUS
<1>5. /\ t \in Finalisation /\ t.pc = "read" /\ t.student = student /\ t.channel = "leaderboard"
      /\ t.todo = {} /\ t.dead = {} /\ t.reached = {} /\ (t.alone <=> L!Finalising = {})
  BY <1>4 DEF L!NoFin, Finalisation, L!Channels, L!LeaderboardAssumption
<1>6. fin'[f] = t /\ \A o \in Finalisers \ {f} :
                       fin'[o] = IF o \in L!Finalising THEN [fin[o] EXCEPT !.alone = FALSE] ELSE fin[o]
  BY <1>2, <1>4
<1>7. ASSUME NEW o \in L!Finalising
      PROVE  /\ fin'[o] \in Finalisation /\ ~fin'[o].alone /\ o \in Finalisers \ {f}
             /\ fin'[o].pc = fin[o].pc /\ fin'[o].student = fin[o].student
             /\ fin'[o].board = fin[o].board /\ fin'[o].channel = fin[o].channel
             /\ fin'[o].todo = fin[o].todo /\ fin'[o].dead = fin[o].dead
             /\ fin'[o].reached = fin[o].reached
  <2>1. o \in Finalisers \ {f}
    BY <1>3 DEF L!Finalising
  <2>2. fin[o] \in Finalisation
    BY <1>1, <2>1 DEF SocketTypes
  <2>3. fin'[o] = [fin[o] EXCEPT !.alone = FALSE]
    BY <1>6, <2>1
  <2> QED BY <2>1, <2>2, <2>3 DEF Finalisation
<1>8. \A o \in Finalisers : fin'[o] \in Finalisation
  BY <1>1, <1>5, <1>6, <1>7 DEF SocketTypes
<1>9. fin' \in [Finalisers -> Finalisation]
  BY <1>2, <1>8
<1>10. L!Finalising' = L!Finalising \cup {f}
  <2>1. \A o \in Finalisers \ {f} : o \notin L!Finalising => fin'[o] = fin[o]
    BY <1>6
  <2> QED BY <1>5, <1>6, <1>7, <2>1 DEF L!Finalising
<1>11. SocketTypes'
  BY <1>1, <1>3, <1>9 DEF SocketTypes, L!Boards, L!Connecting
<1>12. \A s \in L!Sockets : InRoom(s)'
  BY <1>1, <1>3 DEF BoardBase, InRoom, L!ChannelOf
<1>13. ASSUME NEW o \in Finalisers PROVE FinHeld(o)' /\ Cast(o)'
  <2>1. CASE o = f
    <3>1. FinHeld(o)'
      BY <1>5, <1>6, <1>10, <2>1 DEF FinHeld, L!Boards
    <3>2. \A s : Shown(f, s)'
      BY <1>5, <1>6 DEF Shown
    <3>3. Cast(o)'
      BY <1>5, <1>6, <2>1, <3>2 DEF Cast
    <3> QED BY <3>1, <3>3
  <2>2. CASE o \in L!Finalising
    <3>1. FinHeld(o)
      BY <1>1, <2>2 DEF BoardBase
    <3>2. FinHeld(o)'
      BY <1>3, <1>7, <2>2, <3>1 DEF FinHeld, L!Boards
    <3> QED BY <1>7, <2>2, <3>2 DEF Cast
  <2>3. CASE o # f /\ o \notin L!Finalising
    BY <1>10, <2>3 DEF FinHeld, Cast
  <2> QED BY <2>1, <2>2, <2>3
<1>14. Quiet' /\ Busy'
  BY <1>3, <1>10 DEF Quiet, Busy, L!Connecting
<1> QED BY <1>11, <1>12, <1>13, <1>14 DEF BoardInv, BoardBase

LEMMA BoardStutters == ASSUME BoardInv, UNCHANGED L!vars PROVE BoardInv'
<1>1. UNCHANGED <<results, fin, sock, gone, room, screen, stale>>
  BY DEF L!vars
<1>2. SocketTypes'
  BY <1>1 DEF BoardInv, BoardBase, SocketTypes, L!Boards
<1>3. \A s \in L!Sockets : InRoom(s)'
  BY <1>1 DEF BoardInv, BoardBase, InRoom, L!ChannelOf
<1>4. \A f \in Finalisers : FinHeld(f)'
  BY <1>1 DEF BoardInv, BoardBase, FinHeld, L!Finalising, L!Boards
<1>5. Quiet' /\ Busy'
  BY <1>1 DEF BoardInv, Quiet, Busy, QuietAt, Shows, Current, L!Finalising, L!Connecting, L!Open,
              L!Board
<1>6. \A f \in Finalisers : Cast(f)'
  <2>1. \A f, s : Shown(f, s)' <=> Shown(f, s)
    BY <1>1 DEF Shown, Shows, L!ChannelOf
  <2> QED BY <1>1, <2>1 DEF BoardInv, Cast, L!Finalising, L!Open, L!Board
<1> QED BY <1>2, <1>3, <1>4, <1>5, <1>6 DEF BoardInv, BoardBase

(* What is invariant of the sockets (core/websocket_manager.py, ws): the   *)
(* rooms, what each socket shows, and how far a broadcast has come that    *)
(* met no other finalisation.                                              *)
THEOREM BoardInductive == ASSUME L!LeaderboardAssumption PROVE L!Spec => []BoardInv
<1>1. L!Init => BoardInv
  BY BoardInitially
<1>2. BoardInv /\ [L!Next]_L!vars => BoardInv'
  BY BoardSocket, BoardFinalize, BoardRead, BoardCopy, BoardSend, BoardEndOfRoom, BoardCommit,
     BoardFails, BoardStutters DEF L!Next
<1> QED BY <1>1, <1>2, PTL DEF L!Spec

(* Once the finalisations have ended, each open socket is in its room and  *)
(* shows the newest board, but for those that connected during a           *)
(* finalisation or saw two of them overlap; a moderator's socket shows     *)
(* nothing before the first.                                               *)
THEOREM LastBoardReachesViewersHolds ==
  ASSUME L!LeaderboardAssumption PROVE L!Spec => []LastBoardReachesViewers
<1>1. BoardInv => LastBoardReachesViewers
  <2> SUFFICES ASSUME BoardInv, L!Finalising = {}, NEW s \in L!Open \ stale
               PROVE  /\ s \in room[L!ChannelOf(s)]
                      /\ screen[s] \in {L!Board(Newest, results[Newest])}
                                      \cup IF s \in Staff THEN {Blank} ELSE {}
    BY DEF LastBoardReachesViewers, L!LastBoardReachesViewers
  <2>1. s \in L!Sockets /\ s \notin gone /\ sock[s].pc = "open"
    BY DEF L!Open
  <2>2. InRoom(s) /\ QuietAt(s)
    BY <2>1 DEF BoardInv, BoardBase, Quiet
  <2>3. Shows(s, Current)
    BY <2>2 DEF QuietAt
  <2> QED BY <2>1, <2>2, <2>3 DEF InRoom, Shows, Current
<1> QED BY <1>1, BoardInductive, PTL
==============================================================================
