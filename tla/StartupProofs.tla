--------------------------- MODULE StartupProofs ----------------------------
(***************************************************************************)
(* Theorems about what a replica does before it serves: Migrations and     *)
(* Seed.                                                                   *)
(*                                                                         *)
(* Migrations, for any number of replicas, any migrations embedded in them *)
(* and any number of faults. The inductive invariant adds to the three     *)
(* invariants who works under the advisory lock, and what the version      *)
(* table says to the statement that is next, also when its replica is dead *)
(* and its session goes on.                                                *)
(*                                                                         *)
(* Seed, for any number of starts, however they overlap and however their  *)
(* transactions end. Two inductive invariants. SeedInv is about the        *)
(* tables: an account one transaction has written has no row yet, and no   *)
(* other transaction has written it. Progress is about the loops: a start  *)
(* has done the rows before some position of demoUsers, and has still to   *)
(* do those after it.                                                      *)
(***************************************************************************)
EXTENDS Migrations, Seed, SequenceTheorems, TLAPS

Steps == {"down", "driver", "lock", "read", "unlock", "version", "serving"} \cup Statements

Types ==
    /\ applied \in Seq(Nat) /\ version \in Nat
    /\ owner \in Replicas \cup {None, "ghost"}
    /\ pc \in [Replicas -> Steps]
    /\ target \in [Replicas -> Nat]

\* What the tables look like before a statement of the migration to version v.
Before(statement, v) ==
    /\ statement = "set dirty" => ~dirty /\ v = Len(applied) + 1
    /\ statement = "run" => dirty /\ version = v /\ v = Len(applied) + 1
    /\ statement = "set clean" => dirty /\ version = v /\ v = Len(applied)

\* Whoever reads or writes the version holds the lock.
UnderLock(r) == pc[r] \in {"read", "unlock"} \cup Statements => owner = r

AtWork(r) == pc[r] \in Statements => Before(pc[r], target[r]) /\ target[r] <= Latest[r]

Complete(r) == pc[r] \in {"unlock", "version", "serving"} => Latest[r] <= Len(applied)

Ghost ==
    pending # None =>
        /\ owner = "ghost"
        /\ pending.statement \in Statements /\ pending.version \in Nat
        /\ Before(pending.statement, pending.version)

IInv ==
    /\ Types /\ AppliedOnceInOrder /\ VersionTellsSchema /\ Ghost
    /\ \A r \in Replicas : UnderLock(r) /\ AtWork(r) /\ Complete(r)

-----------------------------------------------------------------------------
\* What a statement leaves behind is what the next one expects, and the
\* migrations applied so far stay.
LEMMA ExecuteKeeps ==
    ASSUME Types, AppliedOnceInOrder, VersionTellsSchema,
           NEW statement \in Statements, NEW v \in Nat,
           Before(statement, v), Execute(statement, v)
    PROVE  /\ applied' \in Seq(Nat) /\ version' \in Nat
           /\ AppliedOnceInOrder' /\ VersionTellsSchema'
           /\ Len(applied) <= Len(applied')
           /\ statement = "set dirty" => Before("run", v)'
           /\ statement = "run" => Before("set clean", v)'
           /\ statement = "set clean" => ~dirty' /\ v = Len(applied')
  <1>0. applied \in Seq(Nat) /\ version \in Nat /\ Len(applied) \in Nat
    BY DEF Types
  <1>1. CASE statement = "run"
    <2>1. /\ applied' = Append(applied, v) /\ version' = version /\ dirty'
          /\ version = v /\ v = Len(applied) + 1
      BY <1>1 DEF Execute, Before
    <2>2. Append(applied, v) \in Seq(Nat) /\ Len(Append(applied, v)) = Len(applied) + 1
      BY <1>0
    <2>3. \A i \in 1..(Len(applied) + 1) :
            Append(applied, v)[i] = IF i <= Len(applied) THEN applied[i] ELSE v
      BY <1>0
    <2>4. ASSUME NEW i \in 1..Len(applied') PROVE applied'[i] = i
      BY <2>1, <2>2, <2>3, <1>0 DEF AppliedOnceInOrder
    <2>5. AppliedOnceInOrder' /\ VersionTellsSchema' /\ Before("set clean", v)'
      BY <2>1, <2>2, <2>4, <1>0 DEF AppliedOnceInOrder, VersionTellsSchema, Before
    <2>6. applied' \in Seq(Nat) /\ version' \in Nat /\ Len(applied) <= Len(applied')
      BY <1>0, <2>1, <2>2
    <2> QED BY <1>1, <2>5, <2>6
  <1>2. CASE statement = "set dirty"
    <2>1. applied' = applied /\ version' = v /\ dirty' /\ v = Len(applied) + 1
      BY <1>2 DEF Execute, Before
    <2>2. applied' \in Seq(Nat) /\ version' \in Nat /\ Len(applied) <= Len(applied')
      BY <1>0, <2>1
    <2>3. AppliedOnceInOrder'
      BY <2>1 DEF AppliedOnceInOrder
    <2>4. VersionTellsSchema'
      BY <2>1, <1>0 DEF VersionTellsSchema
    <2>5. Before("run", v)'
      BY <2>1, <1>0 DEF Before
    <2> QED BY <1>2, <2>2, <2>3, <2>4, <2>5
  <1>3. CASE statement = "set clean"
    <2>1. applied' = applied /\ version' = v /\ ~dirty' /\ v = Len(applied)
      BY <1>3 DEF Execute, Before
    <2>2. applied' \in Seq(Nat) /\ version' \in Nat /\ Len(applied) <= Len(applied')
      BY <1>0, <2>1
    <2>3. AppliedOnceInOrder'
      BY <2>1 DEF AppliedOnceInOrder
    <2>4. VersionTellsSchema'
      BY <2>1, <1>0 DEF VersionTellsSchema
    <2>5. ~dirty' /\ v = Len(applied')
      BY <2>1
    <2> QED BY <1>3, <2>2, <2>3, <2>4, <2>5
  <1> QED BY <1>1, <1>2, <1>3 DEF Statements

\* A replica that keeps its step, and what it says of the tables, is not
\* disturbed by a step of another.
LEMMA OthersKeep ==
    ASSUME IInv, NEW q \in Replicas,
           pc'[q] = pc[q], target'[q] = target[q],
           owner = q => owner' = q,
           Len(applied) <= Len(applied'), applied' \in Seq(Nat),
           owner = q => UNCHANGED database
    PROVE  UnderLock(q)' /\ AtWork(q)' /\ Complete(q)'
  <1>1. UnderLock(q) /\ AtWork(q) /\ Complete(q)
    BY DEF IInv
  <1>2. UnderLock(q)'
    BY <1>1 DEF UnderLock, Statements
  <1>3. AtWork(q)'
    BY <1>1 DEF AtWork, UnderLock, Before, database
  <1>4. Complete(q)'
    <2>1. Latest[q] \in Nat /\ Len(applied) \in Nat /\ Len(applied') \in Nat
      BY MigrationsAssumption DEF IInv, Types
    <2> QED BY <2>1, <1>1 DEF Complete
  <1> QED BY <1>2, <1>3, <1>4

-----------------------------------------------------------------------------
\* The invariant is kept by every step of a replica.
LEMMA ReplicaStep ==
    ASSUME IInv, NEW r \in Replicas, Proceed(r) \/ Error(r) \/ Crash(r)
    PROVE  IInv'
  <1> USE MigrationsAssumption
  <1>s. {"down", "driver", "lock", "read", "unlock", "version", "serving",
         "set dirty", "run", "set clean"} \subseteq Steps
    BY DEF Steps, Statements
  <1>0. /\ Types /\ AppliedOnceInOrder /\ VersionTellsSchema /\ Ghost
        /\ UnderLock(r) /\ AtWork(r) /\ Complete(r)
    BY DEF IInv
  <1>t. /\ Len(applied) \in Nat /\ Latest[r] \in Nat /\ target[r] \in Nat /\ version \in Nat
        /\ None # r /\ "ghost" # r /\ None # "ghost"
    BY <1>0 DEF Types
  <1>f. pc \in [Replicas -> Steps] /\ target \in [Replicas -> Nat]
    BY <1>0 DEF Types
  <1>n. \A a, b \in Nat : IF a < b THEN a + 1 \in Nat /\ a + 1 <= b ELSE b <= a
    OBVIOUS
  \* It is enough to look at the tables, the lock and the replica itself.
  <1>frame. ASSUME NEW next \in Steps, NEW v \in Nat,
                   pc' = [pc EXCEPT ![r] = next], target' = [target EXCEPT ![r] = v],
                   UNCHANGED database \/ owner = r,
                   applied' \in Seq(Nat), Len(applied) <= Len(applied'),
                   version' \in Nat,
                   owner' \in {owner, r} \/ owner = r,
                   owner' = r => owner \in {None, r},
                   owner' \in Replicas \cup {None, "ghost"},
                   AppliedOnceInOrder', VersionTellsSchema', Ghost',
                   UnderLock(r)' /\ AtWork(r)' /\ Complete(r)'
            PROVE  IInv'
    <2>1. Types'
      BY <1>frame, <1>0 DEF Types
    <2>2. ASSUME NEW q \in Replicas, q # r
          PROVE  UnderLock(q)' /\ AtWork(q)' /\ Complete(q)'
      <3>1. pc'[q] = pc[q] /\ target'[q] = target[q]
        BY <1>frame, <1>0, <2>2 DEF Types
      <3>2. owner = q => owner' = q /\ UNCHANGED database
        BY <1>frame, <2>2, <1>t
      <3> QED BY <3>1, <3>2, <1>frame, OthersKeep
    <2> QED BY <2>1, <2>2, <1>frame DEF IInv
  <1>same. UNCHANGED database =>
             /\ applied' \in Seq(Nat) /\ Len(applied) <= Len(applied')
             /\ version' \in Nat
             /\ AppliedOnceInOrder' /\ VersionTellsSchema'
    BY <1>0, <1>t DEF database, Types, AppliedOnceInOrder, VersionTellsSchema
  <1>fail. ASSUME Fail(r) PROVE IInv'
    <2>1. pc'[r] = "down" /\ target' = [target EXCEPT ![r] = target[r]]
      BY <1>fail, <1>0 DEF Fail, Goto, Types
    <2>2. Ghost'
      BY <1>fail, <1>0, <1>t DEF Fail, Ghost, Before, database
    <2>3. UnderLock(r)' /\ AtWork(r)' /\ Complete(r)'
      BY <2>1 DEF UnderLock, AtWork, Complete, Statements
    <2> QED BY <1>fail, <1>s, <1>frame, <1>same, <1>0, <1>t, <2>1, <2>2, <2>3
            DEF Fail, Goto, Types
  <1>1. CASE Start(r) \/ WithInstance(r)
    <2>0. PICK next \in {"driver", "lock"} : Goto(r, next)
      BY <1>1 DEF Start, WithInstance
    <2>1. /\ pc'[r] = next /\ target' = [target EXCEPT ![r] = target[r]]
          /\ UNCHANGED <<database, owner, pending>>
      BY <1>1, <2>0, <1>0 DEF Start, WithInstance, Goto, Types
    <2>2. Ghost'
      BY <2>1, <1>0 DEF Ghost, Before, database
    <2>3. UnderLock(r)' /\ AtWork(r)' /\ Complete(r)'
      BY <2>1 DEF UnderLock, AtWork, Complete, Statements
    <2> QED BY <1>s, <1>frame, <1>same, <1>0, <1>t, <2>0, <2>1, <2>2, <2>3 DEF Goto, Types
  <1>2. CASE Lock(r)
    <2>1. /\ pc'[r] = "read" /\ target' = [target EXCEPT ![r] = target[r]]
          /\ owner = None /\ owner' = r /\ UNCHANGED <<database, pending>>
      BY <1>2, <1>0 DEF Lock, LockFree, Goto, Types
    <2>2. Ghost'
      BY <2>1, <1>0, <1>t DEF Ghost
    <2>3. UnderLock(r)' /\ AtWork(r)' /\ Complete(r)'
      BY <2>1 DEF UnderLock, AtWork, Complete, Statements
    <2> QED BY <1>2, <1>s, <1>frame, <1>same, <1>0, <1>t, <2>1, <2>2, <2>3 DEF Lock, Goto, Types
  <1>3. CASE ReadVersion(r)
    <2>0. owner = r /\ pending = None
      BY <1>3, <1>0, <1>t DEF ReadVersion, UnderLock, Ghost, Statements
    <2>1. CASE Refused(r) /\ Fail(r)
      BY <2>1, <1>fail
    <2>2. CASE ~Refused(r) /\ version >= Latest[r] /\ NoChange(r)
      <3>1. /\ pc'[r] = "unlock" /\ target' = [target EXCEPT ![r] = target[r]]
            /\ UNCHANGED <<database, owner, pending>>
        BY <2>2, <1>0 DEF NoChange, Goto, Types
      <3>2. Latest[r] <= Len(applied)
        BY <2>2, <1>0, <1>t DEF Refused, VersionTellsSchema, Types
      <3>3. UnderLock(r)' /\ AtWork(r)' /\ Complete(r)'
        BY <2>0, <3>1, <3>2 DEF UnderLock, AtWork, Complete, Statements, database
      <3>4. Ghost'
        BY <2>0, <3>1 DEF Ghost
      <3> QED BY <2>2, <1>s, <1>frame, <1>same, <1>0, <1>t, <2>0, <3>1, <3>3, <3>4
              DEF NoChange, Goto, Types
    <2>3. CASE /\ ~Refused(r) /\ version < Latest[r]
               /\ target' = [target EXCEPT ![r] = version + 1]
               /\ Goto(r, "set dirty")
               /\ UNCHANGED <<database, owner, pending>>
      <3>0. /\ target' = [target EXCEPT ![r] = version + 1] /\ Goto(r, "set dirty")
            /\ UNCHANGED <<database, owner, pending>> /\ version < Latest[r]
        BY <2>3
      <3>b. version + 1 \in Nat /\ version + 1 <= Latest[r]
        BY <3>0, <1>t, <1>n
      <3>1. pc'[r] = "set dirty" /\ target'[r] = version + 1
        BY <3>0, <1>f DEF Goto
      <3>a. ~dirty
        BY <2>3 DEF Refused
      <3>c. VersionTellsSchema
        BY <1>0
      <3>2. version = Len(applied)
        BY <3>a, <3>c DEF VersionTellsSchema
      <3>3. UnderLock(r)' /\ AtWork(r)' /\ Complete(r)'
        BY <2>0, <3>0, <3>a, <3>b, <3>1, <3>2
           DEF UnderLock, AtWork, Complete, Statements, Before, database
      <3>4. Ghost'
        BY <2>0, <2>3 DEF Ghost
      <3> QED BY <1>s, <1>frame, <1>same, <1>0, <2>0, <3>0, <3>b, <3>3, <3>4
              DEF Goto, Types
    <2> QED BY <1>3, <2>1, <2>2, <2>3 DEF ReadVersion
  <1>4. CASE Apply(r)
    <2>0. /\ owner = r /\ pending = None /\ UNCHANGED <<owner, pending>>
          /\ pc[r] \in Statements /\ Execute(pc[r], target[r])
          /\ Before(pc[r], target[r]) /\ target[r] <= Latest[r]
      BY <1>4, <1>0, <1>t DEF Apply, UnderLock, AtWork, Ghost
    <2>a. PICK v \in Nat : v = target[r]
      BY <1>t
    <2>1. /\ applied' \in Seq(Nat) /\ version' \in Nat
          /\ AppliedOnceInOrder' /\ VersionTellsSchema'
          /\ Len(applied) <= Len(applied')
          /\ pc[r] = "set dirty" => Before("run", v)'
          /\ pc[r] = "run" => Before("set clean", v)'
          /\ pc[r] = "set clean" => ~dirty' /\ v = Len(applied')
      BY <2>0, <2>a, <1>0, ExecuteKeeps
    <2>2. Ghost'
      BY <2>0 DEF Ghost
    <2>3. CASE pc[r] \in {"set dirty", "run"}
      <3>1. PICK next \in {"run", "set clean"} :
              /\ next = After(pc[r]) /\ pc' = [pc EXCEPT ![r] = next]
              /\ target' = [target EXCEPT ![r] = v] /\ Before(next, v)'
        BY <2>3, <2>1, <2>a, <1>4, <1>0 DEF Apply, After, Goto, Types
      <3>2. pc'[r] = next /\ target'[r] = v
        BY <3>1, <1>0 DEF Types
      <3>3. UnderLock(r)' /\ AtWork(r)' /\ Complete(r)'
        BY <3>1, <3>2, <2>0, <2>a DEF UnderLock, AtWork, Complete, Statements, Before
      <3> QED BY <1>s, <1>frame, <2>0, <2>1, <2>2, <3>1, <3>3, <1>0 DEF Types
    <2>4. CASE pc[r] = "set clean" /\ v < Latest[r]
      <3>1. /\ pc' = [pc EXCEPT ![r] = "set dirty"] /\ target' = [target EXCEPT ![r] = v + 1]
            /\ pc'[r] = "set dirty" /\ target'[r] = v + 1
        BY <2>4, <2>a, <1>4, <1>0 DEF Apply, After, Goto, Types
      <3>0. v + 1 \in Nat /\ v + 1 <= Latest[r]
        BY <2>4, <1>t, <1>n
      <3>2. UnderLock(r)' /\ AtWork(r)' /\ Complete(r)'
        <4>1. ~dirty' /\ v = Len(applied')
          BY <2>4, <2>1
        <4>2. owner' = r
          BY <2>0
        <4> QED BY <3>0, <3>1, <4>1, <4>2 DEF UnderLock, AtWork, Complete, Statements, Before
      <3> QED BY <1>s, <1>frame, <2>0, <2>1, <2>2, <3>0, <3>1, <3>2, <1>0 DEF Types
    <2>5. CASE pc[r] = "set clean" /\ ~(v < Latest[r])
      <3>1. /\ pc' = [pc EXCEPT ![r] = "unlock"] /\ target' = [target EXCEPT ![r] = v]
            /\ pc'[r] = "unlock"
        BY <2>5, <2>a, <1>4, <1>0 DEF Apply, After, Goto, Types
      <3>2. UnderLock(r)' /\ AtWork(r)' /\ Complete(r)'
        <4>1. v = Len(applied')
          BY <2>5, <2>1
        <4>2. Latest[r] <= v
          BY <2>5, <1>t, <1>n
        <4>3. owner' = r
          BY <2>0
        <4> QED BY <3>1, <4>1, <4>2, <4>3 DEF UnderLock, AtWork, Complete, Statements
      <3> QED BY <1>s, <1>frame, <2>0, <2>1, <2>2, <3>1, <3>2, <1>0 DEF Types
    <2> QED BY <2>0, <2>3, <2>4, <2>5 DEF Statements
  <1>5. CASE Unlock(r)
    <2>1. /\ pc[r] = "unlock" /\ pc'[r] = "version" /\ target' = [target EXCEPT ![r] = target[r]]
          /\ owner' = None /\ UNCHANGED <<database, pending>>
      BY <1>5, <1>0 DEF Unlock, Goto, Types
    <2>2. owner = r /\ pending = None
      BY <2>1, <1>0, <1>t DEF UnderLock, Ghost, Statements
    <2>3. UnderLock(r)' /\ AtWork(r)' /\ Complete(r)'
      BY <2>1, <1>0 DEF UnderLock, AtWork, Complete, Statements, database
    <2>4. Ghost'
      BY <2>1, <2>2 DEF Ghost
    <2> QED BY <1>5, <1>s, <1>frame, <1>same, <1>0, <1>t, <2>1, <2>2, <2>3, <2>4
            DEF Unlock, Goto, Types
  <1>6. CASE Version(r)
    <2>1. /\ pc[r] = "version" /\ pc'[r] = "serving" /\ target' = [target EXCEPT ![r] = target[r]]
          /\ UNCHANGED <<database, owner, pending>>
      BY <1>6, <1>0 DEF Version, Goto, Types
    <2>2. UnderLock(r)' /\ AtWork(r)' /\ Complete(r)'
      BY <2>1, <1>0 DEF UnderLock, AtWork, Complete, Statements, database
    <2>3. Ghost'
      BY <2>1, <1>0 DEF Ghost, Before, database
    <2> QED BY <1>6, <1>s, <1>frame, <1>same, <1>0, <1>t, <2>1, <2>2, <2>3 DEF Version, Goto, Types
  <1>7. CASE Error(r)
    BY <1>7, <1>fail DEF Error
  <1>8. CASE Crash(r)
    <2>1. pc'[r] = "down" /\ target' = [target EXCEPT ![r] = target[r]] /\ UNCHANGED database
      BY <1>8, <1>0 DEF Crash, Goto, Types
    <2>2. UnderLock(r)' /\ AtWork(r)' /\ Complete(r)'
      BY <2>1 DEF UnderLock, AtWork, Complete, Statements
    <2>3. CASE owner = r
      <3>1. owner' = "ghost" /\ pending' = IF pc[r] \in Statements
                THEN [statement |-> pc[r], version |-> target[r]] ELSE None
        BY <1>8, <2>3 DEF Crash
      <3>2. Ghost'
        BY <3>1, <2>1, <1>0, <1>t DEF Ghost, AtWork, Before, database
      <3> QED BY <1>8, <1>s, <1>frame, <1>same, <1>0, <1>t, <2>1, <2>2, <2>3, <3>1, <3>2
              DEF Crash, Goto, Types
    <2>4. CASE owner # r
      <3>1. UNCHANGED <<owner, pending>>
        BY <1>8, <2>4 DEF Crash
      <3>2. Ghost'
        BY <3>1, <2>1, <1>0 DEF Ghost, Before, database
      <3> QED BY <1>8, <1>s, <1>frame, <1>same, <1>0, <1>t, <2>1, <2>2, <2>4, <3>1, <3>2
              DEF Crash, Goto, Types
    <2> QED BY <2>3, <2>4
  <1> QED BY <1>1, <1>2, <1>3, <1>4, <1>5, <1>6, <1>7, <1>8 DEF Proceed

\* The session of a dead replica keeps it too: nobody else is at work while it
\* holds the lock.
LEMMA GhostStep ==
    ASSUME IInv, GhostExecutes \/ GhostEnds
    PROVE  IInv'
  <1> USE MigrationsAssumption
  <1>0. Types /\ AppliedOnceInOrder /\ VersionTellsSchema /\ Ghost /\ Len(applied) \in Nat
    BY DEF IInv, Types
  <1>1. CASE GhostExecutes
    <2>1. PICK statement \in Statements, v \in Nat :
            /\ owner = "ghost" /\ Before(statement, v) /\ Execute(statement, v)
            /\ pending' = None /\ UNCHANGED <<owner, pc, target>>
      BY <1>1, <1>0 DEF GhostExecutes, Ghost, Types
    <2>2. /\ applied' \in Seq(Nat) /\ version' \in Nat
          /\ AppliedOnceInOrder' /\ VersionTellsSchema' /\ Len(applied) <= Len(applied')
      BY <2>1, <1>0, ExecuteKeeps
    <2>3. ASSUME NEW q \in Replicas PROVE UnderLock(q)' /\ AtWork(q)' /\ Complete(q)'
      BY <2>1, <2>2, OthersKeep
    <2> QED BY <2>1, <2>2, <2>3, <1>0 DEF IInv, Types, Ghost
  <1>2. CASE GhostEnds
    <2>1. /\ owner = "ghost" /\ owner' = None /\ pending' = None
          /\ UNCHANGED <<database, pc, target>>
      BY <1>2 DEF GhostEnds
    <2>2. Types' /\ AppliedOnceInOrder' /\ VersionTellsSchema' /\ Ghost'
      BY <2>1, <1>0 DEF Types, AppliedOnceInOrder, VersionTellsSchema, Ghost, database
    <2>3. ASSUME NEW q \in Replicas PROVE UnderLock(q)' /\ AtWork(q)' /\ Complete(q)'
      BY <2>1, <2>2, <1>0, OthersKeep DEF database, Types
    <2> QED BY <2>2, <2>3 DEF IInv
  <1> QED BY <1>1, <1>2

\* The invariant holds throughout every run of the replicas.
THEOREM Invariance == Spec => []IInv
  <1>1. Init => IInv
    BY MigrationsAssumption DEF Init, IInv, Types, AppliedOnceInOrder, VersionTellsSchema, Ghost,
       UnderLock, AtWork, Complete, Statements, Steps
  <1>2. IInv /\ [Next]_vars => IInv'
    <2> SUFFICES ASSUME IInv, [Next]_vars PROVE IInv'
      OBVIOUS
    <2>1. CASE UNCHANGED vars
      BY <2>1 DEF vars, database, IInv, Types, AppliedOnceInOrder, VersionTellsSchema, Ghost,
         Before, UnderLock, AtWork, Complete
    <2> QED BY <2>1, ReplicaStep, GhostStep DEF Next
  <1> QED BY <1>1, <1>2, PTL DEF Spec

-----------------------------------------------------------------------------
\* However many replicas start, fail and die, Migrate applies every migration
\* once and in order.
THEOREM AppliedOnce == Spec => []AppliedOnceInOrder
  BY Invariance, PTL DEF IInv

\* The version table names the last migration applied, or the one under way.
THEOREM VersionIsTrue == Spec => []VersionTellsSchema
  BY Invariance, PTL DEF IInv

\* A replica that serves has all its migrations under it, although it gave the
\* lock back long before.
THEOREM SchemaIsComplete == Spec => []ServesCompleteSchema
  <1>1. IInv => ServesCompleteSchema
    BY DEF IInv, Complete, ServesCompleteSchema
  <1> QED BY <1>1, Invariance, PTL

\* A migration left half done is never repaired or built upon by a restart.
THEOREM DirtyStays == Spec => DirtyNeedsAnOperator
  <1>1. ASSUME IInv, [Next]_vars, Abandoned PROVE Abandoned'
    <2>0. dirty /\ pending = None /\ pc \in [Replicas -> Steps]
          /\ \A q \in Replicas : pc[q] \notin Statements
      BY <1>1 DEF Abandoned, IInv, Types
    <2>1. ASSUME NEW r \in Replicas, Proceed(r) \/ Error(r) \/ Crash(r)
          PROVE  UNCHANGED <<dirty, pending>> /\ \E next \in Steps \ Statements : Goto(r, next)
      <3>1. CASE Error(r) \/ ReadVersion(r)
        BY <2>0, <3>1 DEF Error, ReadVersion, Refused, Fail, Goto, database, Steps, Statements
      <3>2. CASE Crash(r)
        BY <2>0, <3>2 DEF Crash, Goto, database, Steps, Statements
      <3>3. CASE Start(r) \/ WithInstance(r) \/ Lock(r) \/ Unlock(r) \/ Version(r)
        BY <2>0, <3>3 DEF Start, WithInstance, Lock, Unlock, Version, database, Steps, Statements
      <3>4. ~Apply(r)
        BY <2>0 DEF Apply
      <3> QED BY <2>1, <3>1, <3>2, <3>3, <3>4 DEF Proceed
    <2>2. ASSUME NEW r \in Replicas, Proceed(r) \/ Error(r) \/ Crash(r) PROVE Abandoned'
      <3>1. PICK next \in Steps \ Statements : Goto(r, next)
        BY <2>1, <2>2
      <3>2. \A q \in Replicas : pc'[q] \notin Statements
        BY <3>1, <2>0 DEF Goto
      <3> QED BY <2>0, <2>1, <2>2, <3>2 DEF Abandoned
    <2>3. CASE GhostEnds
      BY <2>0, <2>3 DEF GhostEnds, Abandoned, database
    <2>4. ~GhostExecutes
      BY <2>0 DEF GhostExecutes
    <2>5. CASE UNCHANGED vars
      BY <1>1, <2>5 DEF vars, database, Abandoned
    <2> QED BY <1>1, <2>2, <2>3, <2>4, <2>5 DEF Next
  <1> QED BY <1>1, Invariance, PTL DEF Spec, DirtyNeedsAnOperator

-----------------------------------------------------------------------------
\* The tables and what the transactions wrote.
SeedTypes ==
    /\ DOMAIN balance = Accounts /\ balance = [a \in Accounts |-> balance[a]]
    /\ entries \in [Accounts -> Int]
    /\ DOMAIN wrote = Starts /\ wrote = [s \in Starts |-> wrote[s]]

\* An account a seed has written, and not committed, has no row yet, and no other
\* seed has written it: the second INSERT waits for the first.
Unpublished ==
    \A s \in Starts : \A a \in Accounts : a \in wrote[s] => balance[a] = Nothing
Exclusive ==
    \A s, q \in Starts : s # q => \A a \in Accounts : ~(a \in wrote[s] /\ a \in wrote[q])

\* A transfer moves money between two accounts that have rows.
Moving ==
    moving # <<>> => \E from, to \in Accounts :
        /\ moving = <<from, to>> /\ from # to
        /\ balance[from] # Nothing /\ balance[to] # Nothing

SeedInv == SeedTypes /\ Unpublished /\ Exclusive /\ Moving /\ BalancesAreKept

\* No user has the name of an account.
LEMMA NamesDiffer == \A a \in Accounts : a \notin Users
  BY DEF Accounts, Users

\* Demo writes every row, and each of them once.
LEMMA RowsOnce ==
    /\ demoUsers \in Seq(Users \cup Accounts) /\ Len(demoUsers) = 8
    /\ \A i, j \in 1..8 : demoUsers[i] = demoUsers[j] => i = j
    /\ \A row \in Users \cup Accounts : \E i \in 1..8 : demoUsers[i] = row
  <1>1. \A i \in 1..8 : i = 1 \/ i = 2 \/ i = 3 \/ i = 4 \/ i = 5 \/ i = 6 \/ i = 7 \/ i = 8
    OBVIOUS
  <1>2. /\ Len(demoUsers) = 8
        /\ demoUsers[1] = "alice" /\ demoUsers[2] = "alice-pen" /\ demoUsers[3] = "alice-usd"
        /\ demoUsers[4] = "bob" /\ demoUsers[5] = "bob-pen" /\ demoUsers[6] = "bob-usd"
        /\ demoUsers[7] = "carol" /\ demoUsers[8] = "carol-pen"
    BY DEF demoUsers
  <1>3. demoUsers \in Seq(Users \cup Accounts)
    BY DEF demoUsers, Users, Accounts
  <1>4. \A i, j \in 1..8 : demoUsers[i] = demoUsers[j] => i = j
    BY <1>1, <1>2
  <1>5. \A row \in Users \cup Accounts : \E i \in 1..8 : demoUsers[i] = row
    BY <1>2 DEF Users, Accounts
  <1> QED BY <1>2, <1>3, <1>4, <1>5

-----------------------------------------------------------------------------
\* What an INSERT adds to the rows of a transaction is new and is not shared.
LEMMA ExecKeeps ==
    ASSUME SeedInv, NEW s \in Starts, Exec(s)
    PROVE  SeedInv'
  <1> DEFINE row == Head(todo[s])
  <1>0. UNCHANGED <<balance, entries, moving>>
    BY DEF Exec, tables
  <1>1. /\ wrote' = [wrote EXCEPT ![s] = IF Writes(row) THEN @ \cup {row} ELSE @]
        /\ \A q \in Starts \ {s} : row \notin wrote[q]
    BY DEF Exec, Waits
  <1>2. row \in Accounts /\ Writes(row) => balance[row] = Nothing
    BY NamesDiffer DEF Writes
  <1> HIDE DEF row
  <1>3. /\ DOMAIN wrote' = Starts /\ wrote' = [q \in Starts |-> wrote'[q]]
        /\ \A q \in Starts \ {s} : wrote'[q] = wrote[q]
        /\ \A a : a \in wrote'[s] => a \in wrote[s] \/ (a = row /\ Writes(row))
    BY <1>1 DEF SeedInv, SeedTypes
  <1>4. SeedTypes'
    BY <1>0, <1>3 DEF SeedInv, SeedTypes
  <1>5. Unpublished'
    BY <1>0, <1>2, <1>3 DEF SeedInv, Unpublished
  <1>6. Exclusive'
    BY <1>1, <1>3 DEF SeedInv, Exclusive
  <1> QED BY <1>0, <1>4, <1>5, <1>6 DEF SeedInv, Moving, BalancesAreKept

\* A COMMIT or ROLLBACK gives an account that had no row its opening balance,
\* and touches no other.
LEMMA EndKeeps ==
    ASSUME SeedInv, NEW s \in Starts, NEW published, NEW result,
           published \subseteq wrote[s], End(s, published, result)
    PROVE  SeedInv'
  <1>1. /\ balance' = [a \in Accounts |-> IF a \in published THEN Opening(a) ELSE balance[a]]
        /\ wrote' = [wrote EXCEPT ![s] = {}]
        /\ UNCHANGED <<entries, moving>>
    BY DEF End
  <1>2. /\ DOMAIN wrote' = Starts /\ wrote' = [q \in Starts |-> wrote'[q]]
        /\ wrote'[s] = {}
        /\ \A q \in Starts \ {s} : wrote'[q] = wrote[q]
    BY <1>1 DEF SeedInv, SeedTypes
  <1>3. /\ DOMAIN balance' = Accounts /\ balance' = [a \in Accounts |-> balance'[a]]
        /\ \A a \in Accounts : a \in published => balance'[a] = Opening(a) /\ balance[a] = Nothing
        /\ \A a \in Accounts : a \notin published => balance'[a] = balance[a]
    BY <1>1 DEF SeedInv, Unpublished
  <1>4. SeedTypes'
    BY <1>1, <1>2, <1>3 DEF SeedInv, SeedTypes
  <1>5. Unpublished'
    BY <1>2, <1>3 DEF SeedInv, Unpublished, Exclusive
  <1>6. Exclusive'
    BY <1>2 DEF SeedInv, Exclusive
  <1>7. \A a \in Accounts : Opening(a) \in Int /\ Opening(a) # Nothing
    BY SeedAssumption DEF Opening
  <1>8. Moving'
    BY <1>1, <1>3, <1>7 DEF SeedInv, Moving
  <1>9. ASSUME NEW a \in Accounts
        PROVE  IF balance'[a] = Nothing THEN entries'[a] = 0
               ELSE balance'[a] = Opening(a) + entries'[a]
    <2>1. entries'[a] = entries[a]
      BY <1>1
    <2>2. CASE a \in published
      <3>1. balance[a] = Nothing /\ balance'[a] = Opening(a)
        BY <2>2, <1>3
      <3>2. entries[a] = 0
        BY <3>1 DEF SeedInv, BalancesAreKept
      <3> QED BY <3>1, <3>2, <2>1, <1>7
    <2>3. CASE a \notin published
      BY <2>1, <2>3, <1>3 DEF SeedInv, BalancesAreKept
    <2> QED BY <2>2, <2>3
  <1> QED BY <1>4, <1>5, <1>6, <1>8, <1>9 DEF SeedInv, BalancesAreKept, Opening

\* A transfer changes a balance and the ledger alike.
LEMMA TransferKeeps ==
    ASSUME SeedInv, EndTransfer
    PROVE  SeedInv'
  <1>1. PICK from \in Accounts, to \in Accounts :
          /\ moving = <<from, to>> /\ from # to
          /\ balance[from] # Nothing /\ balance[to] # Nothing
    BY DEF EndTransfer, SeedInv, Moving
  <1>2. moving[1] = from /\ moving[2] = to
    BY <1>1
  <1>3. moving' = <<>> /\ UNCHANGED wrote
    BY DEF EndTransfer
  <1>4. CASE UNCHANGED <<balance, entries>>
    BY <1>3, <1>4 DEF SeedInv, SeedTypes, Unpublished, Exclusive, Moving, BalancesAreKept
  <1>5. CASE /\ balance' = [balance EXCEPT ![moving[1]] = @ - 1, ![moving[2]] = @ + 1]
             /\ entries' = [entries EXCEPT ![moving[1]] = @ - 1, ![moving[2]] = @ + 1]
    <2>1. /\ DOMAIN balance' = Accounts /\ balance' = [a \in Accounts |-> balance'[a]]
          /\ balance'[from] = balance[from] - 1 /\ balance'[to] = balance[to] + 1
          /\ \A a \in Accounts \ {from, to} : balance'[a] = balance[a]
      BY <1>1, <1>2, <1>5 DEF SeedInv, SeedTypes
    <2>2. /\ entries' \in [Accounts -> Int]
          /\ entries'[from] = entries[from] - 1 /\ entries'[to] = entries[to] + 1
          /\ \A a \in Accounts \ {from, to} : entries'[a] = entries[a]
      BY <1>1, <1>2, <1>5 DEF SeedInv, SeedTypes
    <2>3. \A a \in Accounts : Opening(a) \in Int /\ entries[a] \in Int
      BY SeedAssumption DEF Opening, SeedInv, SeedTypes
    <2>4. /\ balance[from] = Opening(from) + entries[from]
          /\ balance[to] = Opening(to) + entries[to]
      BY <1>1 DEF SeedInv, BalancesAreKept
    <2>5. /\ balance'[from] = Opening(from) + entries'[from]
          /\ balance'[to] = Opening(to) + entries'[to]
          /\ balance'[from] \in Int /\ balance'[to] \in Int
      BY <2>1, <2>2, <2>3, <2>4, <1>1
    <2>6. balance'[from] # Nothing /\ balance'[to] # Nothing
      BY <2>5, SeedAssumption
    <2>7. ASSUME NEW a \in Accounts
          PROVE  IF balance'[a] = Nothing THEN entries'[a] = 0
                 ELSE balance'[a] = Opening(a) + entries'[a]
      <3>1. CASE a \in {from, to}
        BY <3>1, <2>5, <2>6
      <3>2. CASE a \notin {from, to}
        BY <3>2, <2>1, <2>2 DEF SeedInv, BalancesAreKept
      <3> QED BY <3>1, <3>2
    <2>8. BalancesAreKept'
      BY <2>7 DEF BalancesAreKept, Opening
    <2>9. Unpublished'
      BY <1>1, <1>3, <2>1 DEF SeedInv, Unpublished
    <2> QED BY <1>3, <2>1, <2>2, <2>8, <2>9 DEF SeedInv, SeedTypes, Exclusive, Moving
  <1> QED BY <1>4, <1>5 DEF EndTransfer

\* The invariant holds in every run.
THEOREM SeedInvariance == SeedSpec => []SeedInv
  <1>1. SeedInit => SeedInv
    BY DEF SeedInit, SeedInv, SeedTypes, Unpublished, Exclusive, Moving, BalancesAreKept
  <1>2. SeedInv /\ [SeedNext]_seedVars => SeedInv'
    <2> SUFFICES ASSUME SeedInv, [SeedNext]_seedVars PROVE SeedInv'
      OBVIOUS
    <2>1. CASE UNCHANGED <<balance, entries, moving, wrote>>
      BY <2>1 DEF SeedInv, SeedTypes, Unpublished, Exclusive, Moving, BalancesAreKept
    <2>2. ASSUME NEW s \in Starts, Begin(s) \/ Interrupt(s)
          PROVE  SeedInv'
      BY <2>1, <2>2 DEF Begin, Interrupt, tables
    <2>3. ASSUME NEW s \in Starts, Commit(s) \/ Abort(s)
          PROVE  SeedInv'
      <3>1. PICK published, result :
              published \subseteq wrote[s] /\ End(s, published, result)
        BY <2>3 DEF Commit, Abort, Rollback
      <3> QED BY <3>1, EndKeeps
    <2>4. ASSUME NEW from \in Accounts, NEW to \in Accounts, SaveBalances(from, to)
          PROVE  SeedInv'
      <3>1. /\ from # to /\ balance[from] # Nothing /\ balance[to] # Nothing
            /\ moving' = <<from, to>> /\ UNCHANGED <<balance, entries, wrote>>
        BY <2>4 DEF SaveBalances
      <3>2. Moving'
        BY <3>1 DEF Moving
      <3> QED BY <3>1, <3>2 DEF SeedInv, SeedTypes, Unpublished, Exclusive, BalancesAreKept
    <2>5. CASE UNCHANGED seedVars
      BY <2>1, <2>5 DEF seedVars, tables
    <2> QED BY <2>2, <2>3, <2>4, <2>5, ExecKeeps, TransferKeeps DEF SeedNext, Quiet
  <1> QED BY <1>1, <1>2, PTL DEF SeedSpec

\* "existing accounts keep their current balance" (demo.go:39), for any number
\* of starts and any opening balance.
THEOREM SeedKeepsBalances == SeedSpec => []BalancesAreKept
  <1>1. SeedInv => BalancesAreKept
    BY DEF SeedInv
  <1> QED BY <1>1, SeedInvariance, PTL

-----------------------------------------------------------------------------
\* The statement for a row has been executed in the transaction of s.
Done(s, row) == row \in wrote[s] \/ (row \in Accounts /\ balance[row] # Nothing)

\* How far Demo is: the rows before position i are done, those from i on are to
\* be written, and nothing else has been.
At(s, i) ==
    /\ todo[s] = SubSeq(demoUsers, i, 8)
    /\ \A j \in 1..i - 1 : Done(s, demoUsers[j])
    /\ wrote[s] \subseteq {demoUsers[j] : j \in 1..i - 1}

\* A start that has not begun has written nothing; one under way is somewhere.
ProgressOf(s) ==
    /\ status[s] = "idle" => wrote[s] = {}
    /\ status[s] \in {"open", "orphan", "lost"} => \E i \in 1..9 : At(s, i)

\* All starts together.
Progress ==
    /\ DOMAIN status = Starts
    /\ DOMAIN todo = Starts
    /\ \A s \in Starts : ProgressOf(s)

\* A row of accounts stays.
LEMMA RowsStay ==
    ASSUME SeedInv, [SeedNext]_seedVars, NEW a \in Accounts, balance[a] # Nothing
    PROVE  balance'[a] # Nothing
  <1>1. CASE UNCHANGED balance
    BY <1>1
  <1>2. ASSUME NEW s \in Starts, Commit(s) \/ Abort(s) PROVE balance'[a] # Nothing
    <2>1. Opening(a) # Nothing
      BY SeedAssumption DEF Opening
    <2> QED BY <1>2, <2>1 DEF Commit, Abort, Rollback, End
  <1>3. CASE EndTransfer
    <2>1. BalancesAreKept' /\ entries' \in [Accounts -> Int]
      BY <1>3, TransferKeeps DEF SeedInv, SeedTypes
    <2>2. PICK from \in Accounts, to \in Accounts :
            /\ moving = <<from, to>> /\ from # to
            /\ balance[from] # Nothing /\ balance[to] # Nothing
      BY <1>3 DEF EndTransfer, SeedInv, Moving
    <2>3. \A b \in Accounts : balance[b] # Nothing => balance[b] \in Int
      BY SeedAssumption DEF SeedInv, SeedTypes, BalancesAreKept, Opening
    <2>4. CASE balance' = [balance EXCEPT ![moving[1]] = @ - 1, ![moving[2]] = @ + 1]
      <3>1. \/ balance'[a] = balance[a]
            \/ balance'[a] = balance[a] - 1
            \/ balance'[a] = balance[a] + 1
        BY <2>2, <2>4 DEF SeedInv, SeedTypes
      <3>2. balance'[a] \in Int
        BY <3>1, <2>3
      <3> QED BY <3>2, SeedAssumption
    <2> QED BY <1>1, <1>3, <2>4 DEF EndTransfer
  <1> QED BY <1>1, <1>2, <1>3 DEF SeedNext, seedVars, tables, Begin, Exec, Interrupt, SaveBalances, Quiet

\* A step of another start leaves what s has done in place.
LEMMA ProgressStays ==
    ASSUME SeedInv, [SeedNext]_seedVars, NEW s \in Starts, ProgressOf(s),
           status'[s] = status[s], todo'[s] = todo[s], wrote'[s] = wrote[s]
    PROVE  ProgressOf(s)'
  <1>1. \A row : Done(s, row) => Done(s, row)'
    BY RowsStay DEF Done
  <1>2. \A i \in 1..9 : At(s, i) => At(s, i)'
    BY <1>1 DEF At
  <1> QED BY <1>2 DEF ProgressOf

\* The next row of a start at position i.
LEMMA NextRow ==
    ASSUME NEW s, NEW i \in 1..9, At(s, i), todo[s] # <<>>
    PROVE  /\ i \in 1..8 /\ Head(todo[s]) = demoUsers[i]
           /\ Tail(todo[s]) = SubSeq(demoUsers, i + 1, 8)
  <1>1. SubSeq(demoUsers, 9, 8) = <<>>
    BY SubSeqEmpty
  <1>2. i # 9
    BY <1>1 DEF At
  <1>3. i \in 1..8
    BY <1>2
  <1> QED BY <1>3, RowsOnce, HeadTailOfSubSeq DEF At

\* Every step keeps how far the start that takes it is.
LEMMA ProgressStep ==
    ASSUME SeedInv, Progress, [SeedNext]_seedVars
    PROVE  Progress'
  <1> USE DEF Progress
  <1>1. CASE UNCHANGED <<status, todo, wrote>>
    BY <1>1, ProgressStays
  <1>2. ASSUME NEW s \in Starts, DOMAIN status' = Starts, DOMAIN todo' = Starts,
               ProgressOf(s)',
               \A q \in Starts \ {s} : status'[q] = status[q] /\ todo'[q] = todo[q]
                                       /\ wrote'[q] = wrote[q]
        PROVE  Progress'
    BY <1>2, ProgressStays
  <1>3. ASSUME NEW s \in Starts, Begin(s) PROVE Progress'
    <2>1. /\ DOMAIN status' = Starts /\ DOMAIN todo' = Starts /\ wrote' = wrote /\ wrote[s] = {}
          /\ \A q \in Starts \ {s} : status'[q] = status[q] /\ todo'[q] = todo[q]
          /\ \/ status'[s] = "open" /\ todo'[s] = demoUsers
             \/ status'[s] = "failed"
      BY <1>3 DEF Begin, ProgressOf, Order
    <2>2. todo'[s] = demoUsers => At(s, 1)'
      <3>1. SubSeq(demoUsers, 1, 8) = demoUsers
        BY RowsOnce, SubSeqFull
      <3>3. \A j \in 1..1 - 1 : FALSE
        OBVIOUS
      <3> QED BY <2>1, <3>1, <3>3 DEF At
    <2>3. ProgressOf(s)'
      BY <2>1, <2>2 DEF ProgressOf
    <2> QED BY <1>2, <2>1, <2>3
  <1>4. ASSUME NEW s \in Starts, Exec(s) PROVE Progress'
    <2>1. PICK i \in 1..9 : At(s, i)
      BY <1>4 DEF Exec, ProgressOf
    <2>2. i \in 1..8
      BY <1>4, <2>1, NextRow DEF Exec
    <2>3. Head(todo[s]) = demoUsers[i] /\ Tail(todo[s]) = SubSeq(demoUsers, i + 1, 8)
      BY <1>4, <2>1, NextRow DEF Exec
    <2>4. /\ DOMAIN status' = Starts /\ DOMAIN todo' = Starts /\ balance' = balance
          /\ \A q \in Starts \ {s} : status'[q] = status[q] /\ todo'[q] = todo[q]
                                     /\ wrote'[q] = wrote[q]
          /\ status'[s] \in {"open", "lost"}
          /\ todo'[s] = SubSeq(demoUsers, i + 1, 8)
          /\ wrote'[s] = IF Writes(demoUsers[i]) THEN wrote[s] \cup {demoUsers[i]} ELSE wrote[s]
      BY <1>4, <2>3 DEF Exec, tables, SeedInv, SeedTypes
    <2>5. At(s, i + 1)'
      <3>1. \A j \in 1..i : Done(s, demoUsers[j])'
        <4>1. Done(s, demoUsers[i])'
          <5>1. demoUsers[i] \in Users \cup Accounts
            BY <2>2, RowsOnce, ElementOfSeq
          <5> QED BY <5>1, <2>4 DEF Done, Writes
        <4>2. \A j \in 1..i - 1 : Done(s, demoUsers[j])'
          BY <2>1, <2>4 DEF At, Done
        <4>3. \A j \in 1..i : j = i \/ j \in 1..i - 1
          BY <2>2
        <4> QED BY <4>1, <4>2, <4>3
      <3>2. wrote'[s] \subseteq {demoUsers[j] : j \in 1..i}
        BY <2>1, <2>2, <2>4 DEF At
      <3>3. (i + 1) - 1 = i
        BY <2>2
      <3> QED BY <3>1, <3>2, <3>3, <2>4 DEF At
    <2>6. ProgressOf(s)'
      <3>1. i + 1 \in 1..9 /\ status'[s] # "idle"
        BY <2>2, <2>4
      <3>2. \E k \in 1..9 : At(s, k)'
        BY Zenon, <2>5, <3>1
      <3> QED BY Zenon, <3>1, <3>2 DEF ProgressOf
    <2> QED BY <1>2, <2>4, <2>6
  <1>5. ASSUME NEW s \in Starts, Commit(s) \/ Abort(s) PROVE Progress'
    <2>1. PICK published, result : End(s, published, result) /\ result \in {"ok", "failed"}
      BY <1>5 DEF Commit, Abort, Rollback
    <2>2. /\ DOMAIN status' = Starts /\ DOMAIN todo' = Starts /\ status'[s] \in {"ok", "failed"}
          /\ \A q \in Starts \ {s} : status'[q] = status[q] /\ todo'[q] = todo[q]
                                     /\ wrote'[q] = wrote[q]
      BY <2>1 DEF End, SeedInv, SeedTypes
    <2>3. ProgressOf(s)'
      BY <2>2 DEF ProgressOf
    <2> QED BY <1>2, <2>2, <2>3
  <1>6. ASSUME NEW s \in Starts, Interrupt(s) PROVE Progress'
    <2>1. /\ DOMAIN status' = Starts /\ todo' = todo /\ wrote' = wrote /\ balance' = balance
          /\ status[s] = "open" /\ status'[s] = "orphan"
          /\ \A q \in Starts \ {s} : status'[q] = status[q]
      BY <1>6 DEF Interrupt, tables
    <2>2. \A i \in 1..9 : At(s, i) => At(s, i)'
      BY <2>1 DEF At, Done
    <2>3. ProgressOf(s)'
      BY <2>1, <2>2 DEF ProgressOf
    <2> QED BY <1>2, <2>1, <2>3
  <1> HIDE DEF Progress
  <1> QED BY <1>1, <1>3, <1>4, <1>5, <1>6 DEF SeedNext, seedVars, SaveBalances, EndTransfer, Quiet

\* How far every start is, in every run.
LEMMA ProgressInvariant == SeedSpec => []Progress
  <1>1. SeedInit => Progress
    <2> SUFFICES ASSUME SeedInit PROVE Progress
      OBVIOUS
    <2>1. \A s \in Starts : status[s] = "idle" /\ wrote[s] = {}
      BY DEF SeedInit
    <2> QED BY <2>1 DEF SeedInit, Progress, ProgressOf
  <1>2. SeedInv /\ Progress /\ [SeedNext]_seedVars => Progress'
    BY ProgressStep
  <1> QED BY <1>1, <1>2, SeedInvariance, PTL DEF SeedSpec

\* "users get their password refreshed from DEMO_PASSWORD" (demo.go:38): a
\* COMMIT publishes all rows, and nothing else changes a password or removes
\* an account.
THEOREM SeedsAreWhole == SeedSpec => []SeedIsWhole
  <1> DEFINE W == SeedIsWhole /\ last \in Starts \cup {Nothing}
  <1>1. SeedInit => W
    BY DEF SeedInit, SeedIsWhole
  <1>2. SeedInv /\ Progress /\ W /\ [SeedNext]_seedVars => W'
    <2> SUFFICES ASSUME SeedInv, Progress, W, [SeedNext]_seedVars PROVE W'
      OBVIOUS
    <2>1. ASSUME NEW s \in Starts, Commit(s) PROVE W'
      <3>1. PICK i \in 1..9 : At(s, i)
        BY <2>1 DEF Commit, Progress, ProgressOf
      <3>2. i = 9
        <4>1. \A j \in 1..8 : demoUsers[j] \in Users \cup Accounts
          BY RowsOnce, ElementOfSeq
        <4>2. i # 9 => Len(SubSeq(demoUsers, i, 8)) # 0
          <5>1. \A j \in i..8 : demoUsers[j] \in Users \cup Accounts
            BY <4>1
          <5> QED BY <5>1, SubSeqProperties
        <4> QED BY <4>2, <3>1, <2>1 DEF Commit, At
      <3>3. \A row \in Users \cup Accounts : Done(s, row)
        <4>1. \A j \in 1..8 : Done(s, demoUsers[j])
          BY <3>1, <3>2 DEF At
        <4> QED BY <4>1, RowsOnce
      <3>4. /\ users' = [u \in Users |-> IF u \in wrote[s] THEN Password[s] ELSE users[u]]
            /\ balance' = [a \in Accounts |-> IF a \in wrote[s] THEN Opening(a) ELSE balance[a]]
            /\ last' = s
        BY <2>1 DEF Commit, End
      <3>5. \A u \in Users : users'[u] = Password[s]
        BY <3>3, <3>4, NamesDiffer DEF Done
      <3>6. \A a \in Accounts : balance'[a] # Nothing
        <4>1. \A a \in Accounts : Opening(a) # Nothing
          BY SeedAssumption DEF Opening
        <4> QED BY <4>1, <3>3, <3>4, NamesDiffer DEF Done
      <3> QED BY <3>4, <3>5, <3>6, SeedAssumption DEF SeedIsWhole
    <2>2. ASSUME UNCHANGED last, \A u \in Users : users'[u] = users[u] PROVE W'
      BY <2>2, RowsStay DEF SeedIsWhole
    <2>3. ASSUME NEW s \in Starts, Abort(s) PROVE W'
      BY <2>2, <2>3 DEF Abort, Rollback, End
    <2>4. CASE UNCHANGED <<users, last>>
      BY <2>2, <2>4
    <2> QED BY <2>1, <2>3, <2>4 DEF SeedNext, seedVars, tables, Begin, Exec, Interrupt, SaveBalances,
            EndTransfer, Quiet
  <1>3. W => SeedIsWhole
    OBVIOUS
  <1> HIDE DEF W
  <1> QED BY <1>1, <1>2, <1>3, SeedInvariance, ProgressInvariant, PTL DEF SeedSpec

\* Starts that seed together never wait for each other in a circle: all write
\* the rows in one order, so the one that is furthest waits for nobody.
THEOREM SeedingHasNoDeadlock == SeedSpec => []NoDeadlock
  <1>1. Progress => NoDeadlock
    <2> SUFFICES ASSUME Progress PROVE NoDeadlock
      OBVIOUS
    <2> DEFINE running == {s \in Starts : status[s] = "open"}
               stuck(s) == todo[s] # <<>> /\ \E q \in running \ {s} : Head(todo[s]) \in wrote[q]
               reached == {i \in 1..9 : \E s \in running : At(s, i)}
    <2>1. SUFFICES ASSUME running # {}, \A s \in running : stuck(s) PROVE FALSE
      BY DEF NoDeadlock
    <2>2. \A s \in running : \E i \in 1..9 : At(s, i)
      BY DEF Progress, ProgressOf
    <2>3. PICK i \in reached : \A j \in reached : j <= i
      <3>1. reached # {} /\ reached \subseteq 1..9
        BY <2>1, <2>2
      <3> HIDE DEF reached
      <3>2. SUFFICES ASSUME \A i \in reached : \E j \in reached : i < j PROVE FALSE
        BY <3>1
      <3>3. reached \subseteq 1..8
        BY <3>1, <3>2
      <3>4. reached \subseteq 1..7
        BY <3>2, <3>3
      <3>5. reached \subseteq 1..6
        BY <3>2, <3>4
      <3>6. reached \subseteq 1..5
        BY <3>2, <3>5
      <3>7. reached \subseteq 1..4
        BY <3>2, <3>6
      <3>8. reached \subseteq 1..3
        BY <3>2, <3>7
      <3>9. reached \subseteq 1..2
        BY <3>2, <3>8
      <3>10. reached \subseteq 1..1
        BY <3>2, <3>9
      <3>11. \A j \in reached : j = 1
        BY <3>10
      <3>12. PICK j \in reached : TRUE
        BY <3>1
      <3>13. PICK k \in reached : j < k
        BY <3>2
      <3> QED BY <3>11, <3>13
    <2>4. PICK s \in running : At(s, i)
      BY <2>3
    <2>5. PICK q \in running \ {s} : Head(todo[s]) \in wrote[q]
      BY <2>1
    <2>6. i \in 1..8 /\ Head(todo[s]) = demoUsers[i]
      BY <2>1, <2>4, NextRow
    <2>7. PICK j \in reached : At(q, j)
      BY <2>2
    <2>8. PICK k \in 1..j - 1 : demoUsers[i] = demoUsers[k]
      BY <2>5, <2>6, <2>7 DEF At
    <2>9. i = k
      BY <2>6, <2>8, RowsOnce
    <2> QED BY <2>3, <2>7, <2>8, <2>9
  <1> QED BY <1>1, ProgressInvariant, PTL
=============================================================================
