----------------------------- MODULE Migration ------------------------------
(***************************************************************************)
(* Instances of the service that start side by side and bring the schema   *)
(* up to date first: scripts/migrate.py, alembic/env.py, the revisions of  *)
(* alembic/versions and the start command of the Dockerfile.               *)
(*                                                                         *)
(* migrate.py takes an advisory lock on a connection of its own, runs      *)
(* `alembic upgrade head` as a child process and releases the lock.  The   *)
(* child reads the version and executes the statements of every revision   *)
(* that is missing in one transaction.  The parent may be killed, or lose  *)
(* the connection that holds the lock, while the child goes on.            *)
(***************************************************************************)
EXTENDS Naturals, Schema

CONSTANTS Instances, Nobody

ASSUME NobodyAssumption == Nobody \notin Instances

VARIABLES
    \* database
    version,    \* number of revisions applied
    schema,
    lock,       \* the instance whose connection holds the advisory lock
    ddl,        \* the child whose open transaction has changed the schema
    work,       \* the schema that transaction sees
    next,       \* and the statement it executes next
    \* instances
    phase,         \* "down", "locking", "migrating" or "serving"
    image,      \* the revisions the instance's own code knows
    child,      \* its child: "none", "new", "upgrading", "downgrading",
                \* "done" or "failed"
    from,       \* the version the child found
    orphans     \* children no parent holds the lock for

parents       == <<phase, image, lock>>
children      == <<child, from, ddl, work, next>>
migrationVars == <<version, schema, parents, children, orphans>>

Up   == <<Up0001, Up0002>>
Down == <<Down0001, Down0002>>
Latest == Len(Up)

\* What `upgrade head` of an image and `downgrade -1` execute from version v.
Upgrade(v, head) == FlattenSeq(SubSeq(Up, v + 1, head))
Downgrade(v)     == Down[v]

\* The schemas the statements of todo go through from s: the nth meets
\* Stages(todo, s)[n].
Stages(todo, s) ==
    LET stage[n \in 1..Len(todo) + 1] ==
            IF n = 1 THEN s ELSE After(todo[n - 1], stage[n - 1])
    IN stage

Replay(todo, s) == Stages(todo, s)[Len(todo) + 1]

\* Each statement of todo runs in its turn, and they lead from s to a goal.
Sound(todo, s, goals) ==
    LET stage == Stages(todo, s) IN
    /\ Len(todo) \in Nat
    /\ stage[1] = s /\ stage[Len(todo) + 1] \in goals
    /\ \A n \in 1..Len(todo) :
          Runs(todo[n], stage[n]) /\ stage[n + 1] = After(todo[n], stage[n])

\* The schemas a database at version v may have.  A downgrade to the first
\* revision leaves the labels that the second one added.
Reached(v) ==
    CASE v = 0 -> {Empty}
      [] v = 1 -> {Replay(Up0001, Empty), Replay(Down0002, Models)}
      [] v = 2 -> {Models}

\* The revisions fit together, and fit models.py, when nobody interferes.
RevisionsFit ==
    \A v \in 0..Latest : \A s \in Reached(v) :
        /\ \A head \in v + 1..Latest : Sound(Upgrade(v, head), s, Reached(head))
        /\ v > 0 => Sound(Downgrade(v), s, Reached(v - 1))

\* It names no constant: a fact about the text of the revisions, which TLC
\* computes before each run.
ASSUME RevisionsAssumption == RevisionsFit

Todo(i)   == IF child[i] = "downgrading" THEN Downgrade(from[i]) ELSE Upgrade(from[i], image[i])
Target(i) == IF child[i] = "downgrading" THEN from[i] - 1 ELSE image[i]

MigrationTypeOK ==
    /\ version \in 0..Latest
    /\ lock \in Instances \cup {Nobody}
    /\ ddl \in Instances \cup {Nobody}
    /\ phase \in [Instances -> {"down", "locking", "migrating", "serving"}]
    /\ image \in [Instances -> 1..Latest]
    /\ child \in [Instances -> {"none", "new", "upgrading", "downgrading", "done", "failed"}]
    /\ from \in [Instances -> 0..Latest]
    /\ orphans \subseteq {i \in Instances : child[i] # "none"}
    /\ \A i \in Instances : phase[i] = "migrating" => child[i] # "none"
    /\ ddl # Nobody => /\ child[ddl] \in {"upgrading", "downgrading"}
                     /\ next \in 1..Len(Todo(ddl)) + 1

MigrationInit ==
    /\ version = 0 /\ schema = Empty
    /\ lock = Nobody /\ ddl = Nobody /\ work = Empty /\ next = 1
    /\ phase = [i \in Instances |-> "down"]
    /\ image \in [Instances -> 1..Latest]
    /\ child = [i \in Instances |-> "none"] /\ from = [i \in Instances |-> 0]
    /\ orphans = {}

-----------------------------------------------------------------------------
(***************************************************************************)
(* The parent: the start command and migrate.py.                           *)
(***************************************************************************)

\* MIGRATE_ON_START decides whether migrate.py runs before the server.
\* Nobody starts an instance while the schema is downgraded by hand.
Start(i) ==
    /\ phase[i] = "down" /\ child[i] = "none"
    /\ \A j \in Instances : child[j] # "downgrading"
    /\ phase' \in {[phase EXCEPT ![i] = s] : s \in {"locking", "serving"}}
    /\ UNCHANGED <<version, schema, image, lock, children, orphans>>

\* Seeded fault: the answer of a lock that does not wait is not looked at.
AcquireAnyway(i) ==
    /\ phase[i] = "locking"
    /\ lock' = IF lock = Nobody THEN i ELSE lock
    /\ phase' = [phase EXCEPT ![i] = "migrating"]
    /\ child' = [child EXCEPT ![i] = "new"]
    /\ UNCHANGED <<version, schema, image, from, ddl, work, next, orphans>>

\* pg_advisory_lock has waited its turn; the child is started.
Acquire(i) ==
    /\ phase[i] = "locking"
    /\ lock = Nobody
    /\ lock' = i
    /\ phase' = [phase EXCEPT ![i] = "migrating"]
    /\ child' = [child EXCEPT ![i] = "new"]
    /\ UNCHANGED <<version, schema, image, from, ddl, work, next, orphans>>

\* Seeded fault: the child's exit code is not looked at.
FinishUnchecked(i) ==
    /\ phase[i] = "migrating"
    /\ child[i] \in {"done", "failed"}
    /\ lock' = IF lock = i THEN Nobody ELSE lock
    /\ phase' = [phase EXCEPT ![i] = "serving"]
    /\ child' = [child EXCEPT ![i] = "none"]
    /\ orphans' = orphans \ {i}
    /\ UNCHANGED <<version, schema, image, from, ddl, work, next>>

\* Seeded fault: the lock is released only after a success.
FinishHolding(i) ==
    /\ phase[i] = "migrating"
    /\ child[i] \in {"done", "failed"}
    /\ lock' = IF lock = i /\ child[i] = "done" THEN Nobody ELSE lock
    /\ phase' = [phase EXCEPT ![i] = IF child[i] = "done" THEN "serving" ELSE "down"]
    /\ child' = [child EXCEPT ![i] = "none"]
    /\ orphans' = orphans \ {i}
    /\ UNCHANGED <<version, schema, image, from, ddl, work, next>>

\* The child has ended: the lock is released and the connection closed.  The
\* server is started when the child succeeded and the release did too.
Finish(i) ==
    /\ phase[i] = "migrating"
    /\ child[i] \in {"done", "failed"}
    /\ lock' = IF lock = i THEN Nobody ELSE lock
    /\ phase' = [phase EXCEPT ![i] = IF child[i] = "done" /\ lock = i THEN "serving" ELSE "down"]
    /\ child' = [child EXCEPT ![i] = "none"]
    /\ orphans' = orphans \ {i}
    /\ UNCHANGED <<version, schema, image, from, ddl, work, next>>

\* The connection that holds the lock breaks; migrate.py notices at its end.
LoseConnection(i) ==
    /\ lock = i
    /\ lock' = Nobody
    /\ orphans' = orphans \cup {i}
    /\ UNCHANGED <<version, schema, phase, image, children>>

\* The parent is killed and its connection closed; the child dies with it or
\* not.
Kill(i) ==
    /\ phase[i] # "down"
    /\ phase' = [phase EXCEPT ![i] = "down"]
    /\ lock' = IF lock = i THEN Nobody ELSE lock
    /\ \/ /\ child' = [child EXCEPT ![i] = "none"]
          /\ orphans' = orphans \ {i}
          /\ ddl' = IF ddl = i THEN Nobody ELSE ddl
          /\ work' = IF ddl = i THEN Empty ELSE work
          /\ next' = IF ddl = i THEN 1 ELSE next
       \/ /\ child[i] # "none"
          /\ orphans' = orphans \cup {i}
          /\ UNCHANGED <<child, ddl, work, next>>
    /\ UNCHANGED <<version, schema, image, from>>

\* What is left of an orphan that has ended and has no parent.
Reap(i) ==
    /\ phase[i] = "down" /\ child[i] \in {"done", "failed"}
    /\ child' = [child EXCEPT ![i] = "none"]
    /\ orphans' = orphans \ {i}
    /\ UNCHANGED <<version, schema, parents, from, ddl, work, next>>

-----------------------------------------------------------------------------
(***************************************************************************)
(* The child: alembic.                                                     *)
(***************************************************************************)
EndChild(i, how) == child' = [child EXCEPT ![i] = how]
Idle == ddl' = Nobody /\ work' = Empty /\ next' = 1

\* A version its own revisions do not include is an error; with none missing
\* there is nothing to do.
ReadVersion(i) ==
    /\ child[i] = "new"
    /\ from' = [from EXCEPT ![i] = version]
    /\ EndChild(i, IF version > image[i] THEN "failed"
                   ELSE IF version = image[i] THEN "done" ELSE "upgrading")
    /\ UNCHANGED <<version, schema, parents, ddl, work, next, orphans>>

\* Seeded fault: a first statement that has waited goes ahead regardless.
OpenRegardless(i) ==
    /\ child[i] \in {"upgrading", "downgrading"}
    /\ ddl = Nobody
    /\ ddl' = i /\ work' = schema
    /\ UNCHANGED <<child, next, version, schema, parents, from, orphans>>

\* Its first statement waits for another that changes the schema, and then
\* fails if that one has committed.
Open(i) ==
    /\ child[i] \in {"upgrading", "downgrading"}
    /\ ddl = Nobody
    /\ IF version = from[i]
       THEN ddl' = i /\ work' = schema /\ UNCHANGED <<child, next>>
       ELSE EndChild(i, "failed") /\ UNCHANGED <<ddl, work, next>>
    /\ UNCHANGED <<version, schema, parents, from, orphans>>

\* Seeded fault: each statement is committed by itself.
ExecuteAutocommit(i) ==
    /\ ddl = i /\ next <= Len(Todo(i))
    /\ IF Runs(Todo(i)[next], work)
       THEN /\ work' = After(Todo(i)[next], work)
            /\ schema' = work'
            /\ next' = next + 1
            /\ UNCHANGED <<ddl, child>>
       ELSE EndChild(i, "failed") /\ Idle /\ UNCHANGED schema
    /\ UNCHANGED <<version, parents, from, orphans>>

Execute(i) ==
    /\ ddl = i /\ next <= Len(Todo(i))
    /\ IF Runs(Todo(i)[next], work)
       THEN /\ work' = After(Todo(i)[next], work)
            /\ next' = next + 1
            /\ UNCHANGED <<ddl, child>>
       ELSE EndChild(i, "failed") /\ Idle
    /\ UNCHANGED <<version, schema, parents, from, orphans>>

CommitRevisions(i) ==
    /\ ddl = i /\ next = Len(Todo(i)) + 1
    /\ schema' = work /\ version' = Target(i)
    /\ EndChild(i, "done") /\ Idle
    /\ UNCHANGED <<parents, from, orphans>>

\* The child dies or loses its database at any statement.
Break(i) ==
    /\ child[i] \in {"new", "upgrading", "downgrading"}
    /\ EndChild(i, "failed")
    /\ IF ddl = i THEN Idle ELSE UNCHANGED <<ddl, work, next>>
    /\ UNCHANGED <<version, schema, parents, from, orphans>>

\* `alembic downgrade -1`, by hand and with no instance up.
StartDowngrade(i) ==
    /\ \A j \in Instances : phase[j] = "down" /\ child[j] = "none"
    /\ version > 0
    /\ from' = [from EXCEPT ![i] = version]
    /\ EndChild(i, "downgrading")
    /\ orphans' = orphans \cup {i}
    /\ UNCHANGED <<version, schema, parents, ddl, work, next>>

Go(i) == ReadVersion(i) \/ Open(i) \/ Execute(i) \/ CommitRevisions(i) \/ Finish(i) \/ Reap(i)

MigrationNext == \E i \in Instances :
    \/ Start(i) \/ Acquire(i) \/ Go(i)
    \/ LoseConnection(i) \/ Kill(i) \/ Break(i) \/ StartDowngrade(i)

\* Processes go on, and the database gives the lock to who waits for it.
MigrationFairness == \A i \in Instances :
    /\ WF_migrationVars(Go(i))
    /\ SF_migrationVars(Open(i)) /\ SF_migrationVars(Acquire(i))

MigrationSpec == MigrationInit /\ [][MigrationNext]_migrationVars /\ MigrationFairness

-----------------------------------------------------------------------------
(***************************************************************************)
(* Properties.                                                             *)
(***************************************************************************)

\* Whatever dies and whoever overlaps, the committed schema is that of a
\* whole number of revisions, and at the last one what models.py declares:
\* the same tables, columns, keys, types and deletion rules.
HeadIsTheModels ==
    /\ version = Latest => schema = Models
    /\ version = 0 => schema = Empty

\* No statement of a revision fails in the order they are written, going up
\* or down: everything it needs is there and nothing it drops is in use.
StatementsRun == ddl # Nobody /\ next <= Len(Todo(ddl)) => Runs(Todo(ddl)[next], work)

\* DEPLOY_AWS.md:147, "to reduce concurrent migration risk": of the children
\* at work at most one has a parent that holds the lock; any other has lost
\* it.
OneMigrator ==
    \A i, j \in Instances :
        (i # j /\ {child[i], child[j]} \cap {"none", "done", "failed"} = {})
        => i \in orphans \/ j \in orphans

\* A server that was started after its migration finds every revision it
\* knows of applied.
ServesMigrated ==
    [][\A i \in Instances :
          (phase[i] = "migrating" /\ phase'[i] = "serving") => version >= image[i]]_migrationVars

\* Nobody waits for the lock for ever.
LockTaken == \A i \in Instances : phase[i] = "locking" ~> phase[i] # "locking"
=============================================================================
