----------------------------- MODULE Migrations -----------------------------
(***************************************************************************)
(* repository.Migrate, run by several replicas at start, over one database *)
(* (internal/repository/migrate.go).                                       *)
(*                                                                         *)
(* The library golang-migrate does the work: it takes an advisory lock,    *)
(* reads the version, and for every pending migration marks the version    *)
(* dirty, runs the file (one transaction, BEGIN to COMMIT) and marks the   *)
(* version clean.  These steps are modelled from how Migrate uses them.    *)
(*                                                                         *)
(* A replica embeds the migrations 1..Latest[r]: replicas of two releases  *)
(* may start side by side.  When a replica dies or loses its connection,   *)
(* its session lives on in PostgreSQL as a ghost, lock included: the       *)
(* statement already sent may still be executed before the session ends.   *)
(***************************************************************************)
EXTENDS Naturals, Sequences

CONSTANTS Replicas,
          None,      \* nobody
          Latest,    \* the last migration embedded in each replica
          MaxFaults  \* bound of the model: crashes, timeouts, failed statements

ASSUME MigrationsAssumption ==
    /\ None \notin Replicas \cup {"ghost"} /\ "ghost" \notin Replicas
    /\ Latest \in [Replicas -> Nat \ {0}]
    /\ MaxFaults \in Nat

VARIABLES applied,   \* the migrations whose transaction committed, in order
          version,   \* schema_migrations.version; 0 when there is no row
          dirty,     \* schema_migrations.dirty
          owner,     \* the session that holds the advisory lock
          pending,   \* the statement of the ghost that may still be executed
          pc,        \* the next step of each replica
          target,    \* the migration it is applying
          faults

database == <<applied, version, dirty>>
vars == <<database, owner, pending, pc, target, faults>>

Statements == {"set dirty", "run", "set clean"}

Init ==
    /\ applied = <<>> /\ version = 0 /\ dirty = FALSE
    /\ owner = None /\ pending = None
    /\ pc = [r \in Replicas |-> "down"]
    /\ target = [r \in Replicas |-> 0]
    /\ faults = 0

Goto(r, next) == pc' = [pc EXCEPT ![r] = next]

\* Migrate returns an error: db.Close ends the session, and the process exits.
\* Faulty variant: the error of Up is ignored.
GoOn(r) ==
    /\ Goto(r, "version")
    /\ owner' = IF owner = r THEN None ELSE owner
    /\ UNCHANGED <<database, pending, target>>
Fail(r) ==
    /\ Goto(r, "down")
    /\ owner' = IF owner = r THEN None ELSE owner
    /\ UNCHANGED <<database, pending, target>>

-----------------------------------------------------------------------------
Start(r) ==
    /\ pc[r] = "down"
    /\ Goto(r, "driver")
    /\ UNCHANGED <<database, owner, pending, target, faults>>

\* WithInstance: creates the version table, under the lock, and gives it back.
\* Faulty variant: no lock.
AlwaysFree == TRUE
LockFree == owner = None

WithInstance(r) ==
    /\ pc[r] = "driver"
    /\ LockFree
    /\ Goto(r, "lock")
    /\ UNCHANGED <<database, owner, pending, target, faults>>

\* Up: the lock, and then the version.
Lock(r) ==
    /\ pc[r] = "lock"
    /\ LockFree
    /\ owner' = r
    /\ Goto(r, "read")
    /\ UNCHANGED <<database, pending, target, faults>>

\* ErrDirty; or the version is of a later release and has no file here.
\* Faulty variant: the dirty flag is not looked at.
UnknownVersion(r) == version > Latest[r]
Refused(r) == dirty \/ version > Latest[r]

\* ErrNoChange is no error of Migrate.
\* Faulty variant: it is one.
NoChangeFails(r) == Fail(r)
NoChange(r) ==
    /\ Goto(r, "unlock")
    /\ UNCHANGED <<database, owner, pending, target>>

ReadVersion(r) ==
    /\ pc[r] = "read"
    /\ \/ Refused(r) /\ Fail(r)
       \/ ~Refused(r) /\ version >= Latest[r] /\ NoChange(r)
       \/ /\ ~Refused(r) /\ version < Latest[r]
          /\ target' = [target EXCEPT ![r] = version + 1]
          /\ Goto(r, "set dirty")
          /\ UNCHANGED <<database, owner, pending>>
    /\ UNCHANGED faults

\* What a statement of a migration to version v does to the database.
Execute(statement, v) ==
    /\ applied' = IF statement = "run" THEN Append(applied, v) ELSE applied
    /\ version' = IF statement = "run" THEN version ELSE v
    /\ dirty' = IF statement = "run" THEN dirty ELSE statement = "set dirty"

\* Faulty variant: the version is marked clean before the file is run.
CleanFirst(statement) == CASE statement = "set dirty" -> "set clean"
                           [] statement = "set clean" -> "run"
                           [] statement = "run" -> "done"
After(statement) == CASE statement = "set dirty" -> "run"
                      [] statement = "run" -> "set clean"
                      [] statement = "set clean" -> "done"

Apply(r) ==
    /\ pc[r] \in Statements
    /\ Execute(pc[r], target[r])
    /\ IF After(pc[r]) # "done"
       THEN Goto(r, After(pc[r])) /\ UNCHANGED target
       ELSE IF target[r] < Latest[r]
       THEN Goto(r, "set dirty") /\ target' = [target EXCEPT ![r] = @ + 1]
       ELSE Goto(r, "unlock") /\ UNCHANGED target
    /\ UNCHANGED <<owner, pending, faults>>

Unlock(r) ==
    /\ pc[r] = "unlock"
    /\ owner' = None
    /\ Goto(r, "version")
    /\ UNCHANGED <<database, pending, target, faults>>

\* Version, without the lock, of which only the error counts; then run goes on.
Version(r) ==
    /\ pc[r] = "version"
    /\ Goto(r, "serving")
    /\ UNCHANGED <<database, owner, pending, target, faults>>

Proceed(r) ==
    \/ Start(r) \/ WithInstance(r) \/ Lock(r) \/ ReadVersion(r) \/ Apply(r)
    \/ Unlock(r) \/ Version(r)

-----------------------------------------------------------------------------
Faulty == faults < MaxFaults /\ faults' = faults + 1

\* A statement fails and is rolled back, or the lock is not had in time.
Error(r) ==
    /\ Faulty
    /\ pc[r] \notin {"down", "serving"}
    /\ Fail(r)

\* The process dies or loses its connection.
Crash(r) ==
    /\ Faulty
    /\ pc[r] # "down"
    /\ Goto(r, "down")
    /\ IF owner = r
       THEN /\ owner' = "ghost"
            /\ pending' = IF pc[r] \in Statements
                          THEN [statement |-> pc[r], version |-> target[r]] ELSE None
       ELSE UNCHANGED <<owner, pending>>
    /\ UNCHANGED <<database, target>>

\* The session of a dead replica: its last statement, and its end.
GhostExecutes ==
    /\ pending # None
    /\ Execute(pending.statement, pending.version)
    /\ pending' = None
    /\ UNCHANGED <<owner, pc, target, faults>>

GhostEnds ==
    /\ owner = "ghost"
    /\ owner' = None /\ pending' = None
    /\ UNCHANGED <<database, pc, target, faults>>

AllServe == \A r \in Replicas : pc[r] = "serving"

Next ==
    \/ \E r \in Replicas : Proceed(r) \/ Error(r) \/ Crash(r)
    \/ GhostExecutes \/ GhostEnds
    \/ AllServe /\ UNCHANGED vars

Spec == Init /\ [][Next]_vars

\* Replicas run and are started again when they have exited, and PostgreSQL
\* notices a dead client. Strong fairness is for the lock, which it grants in
\* the order of the waiters: a replica that is refused and started again without
\* end keeps nobody from it.
FairSpec == Spec /\ WF_vars(GhostEnds) /\ \A r \in Replicas : SF_vars(Proceed(r))

-----------------------------------------------------------------------------
\* "Several replicas starting at once won't step on each other": whoever
\* applies them, and whoever dies doing so, every migration is applied once,
\* in the order of the files.
AppliedOnceInOrder == \A i \in 1..Len(applied) : applied[i] = i

\* The version table never lies: clean, it names the last migration applied;
\* dirty, the one that was being applied.
VersionTellsSchema ==
    IF dirty THEN version \in {Len(applied), Len(applied) + 1} ELSE version = Len(applied)

\* A replica serves only on a schema with all the migrations it was built with.
ServesCompleteSchema ==
    \A r \in Replicas : pc[r] = "serving" => Latest[r] <= Len(applied)

\* A version left dirty, with nobody at work on it any more, stays so for good:
\* no restart of any replica repairs it or builds on it.
Abandoned == dirty /\ pending = None /\ \A r \in Replicas : pc[r] \notin Statements

DirtyNeedsAnOperator == [][Abandoned => Abandoned']_vars

\* After the last fault every replica of the newest release comes to serve and
\* stays, unless a migration was left half done.
Newest == {r \in Replicas : \A q \in Replicas : Latest[q] <= Latest[r]}

NewestServeOrDirty == <>[](\A r \in Newest : pc[r] = "serving") \/ <>[]dirty
=============================================================================
