----------------------------- MODULE AdminStore -----------------------------
(***************************************************************************)
(* The durable administration store (admin.rs).  Every invocation of        *)
(* `anvil-ring admin` is a process of its own; it opens the SQLite file,    *)
(* changes it in one IMMEDIATE transaction and, when it issues a            *)
(* credential, delivers that credential in a new file before it commits.    *)
(* Any of the processes may be killed between two of its steps.  Readers    *)
(* (the hub's refresh, `list`, `audit`) take snapshots meanwhile.           *)
(*                                                                         *)
(* SQLite is external: what is used of it is that one transaction at a time *)
(* holds the write lock (a writer gives up after the busy timeout), that a  *)
(* commit waits until no reader is inside (or gives up), keeps new readers  *)
(* out while it waits, and takes effect at once or not at all.              *)
(***************************************************************************)
EXTENDS Naturals, FiniteSets, Sequences

CONSTANTS
    Admins,            \* one invocation of `anvil-ring admin` each; it also
                       \* names the credential and the inode it creates
    Readers,           \* those that take snapshots
    Ids,               \* tether ids
    Files,             \* paths for credential output
    Commands,          \* what the invocations may be asked to do
    MaxRegistrations,  \* admin.rs:22; the code has 10000
    NoAdmin            \* no database, no file, no registration

CommandSpace ==
    [op : {"init", "register", "rotate", "revoke"}, id : Ids, out : Files]

NoCommand == [op |-> "none"]

ASSUME CommandAssumption == Commands \subseteq CommandSpace /\ Commands # {}
ASSUME LimitAssumption == MaxRegistrations \in Nat
ASSUME NoAdminAssumption == NoAdmin \notin Admins

VARIABLES
    pc,        \* where each invocation is
    command,   \* what it was asked to do
    result,    \* what it reported: "none" while it runs
    opened,    \* the inode it opened, its database_identity
    draft,     \* its transaction's view of the store
    database,  \* the inode at the path of the database, or NoAdmin
    stored,    \* what each inode holds: schema, registrations, audit
    files,     \* the credential in each output file
    rpc,       \* each reader: "idle" or "reading"
    ropened,   \* the inode it reads
    unread,    \* the rows it has still to read
    view       \* the rows it has read

adminVars  == <<pc, command, result, opened, draft>>
readerVars == <<rpc, ropened, unread, view>>
vars       == <<adminVars, database, stored, files, readerVars>>

Registration == [credential : Admins, active : BOOLEAN]
Absent       == [credential |-> NoAdmin, active |-> FALSE]
Rows         == [Ids -> Registration \cup {Absent}]
NoRows       == [i \in Ids |-> Absent]

\* The kinds of audit events: those that issue a credential, and those that change
\* a registration.
IssueKinds  == {"register", "rotate"}
ChangeKinds == {"register", "rotate", "revoke"}

\* An audit event.  `by` is the invocation; for an issue it is also the
\* credential whose expiry the event carries.
Event == [op : {"init"} \cup ChangeKinds, id : Ids, by : Admins]

Store      == [schema : BOOLEAN, rows : Rows, audit : Seq(Event)]
EmptyStore == [schema |-> FALSE, rows |-> NoRows, audit |-> <<>>]

\* A file holds nothing, a part of a credential, or a whole one.
NoFile     == [of |-> NoAdmin, whole |-> FALSE]

\* Where an invocation holds the write lock.
InTransaction == {"drafted", "writing", "unwritten", "ready", "committing"}

Issues(a)    == command[a].op \in IssueKinds
Writers(n)   == {a \in Admins : pc[a] \in InTransaction /\ opened[a] = n}
\* Mutant: the rows are read outside a transaction.
Reading_NoTransaction(n) == {}
Reading(n)   == {r \in Readers : rpc[r] = "reading" /\ ropened[r] = n}
\* A commit that waits for readers keeps new ones out.
Blocked(n)   == \E a \in Writers(n) : pc[a] = "committing"
Registered(rows) == {i \in Ids : rows[i] # Absent}

Init ==
    /\ pc = [a \in Admins |-> "new"]
    /\ command = [a \in Admins |-> NoCommand]
    /\ result = [a \in Admins |-> "none"]
    /\ opened = [a \in Admins |-> NoAdmin]
    /\ draft = [a \in Admins |-> EmptyStore]
    /\ database = NoAdmin
    /\ stored = [n \in Admins |-> EmptyStore]
    /\ files = [f \in Files |-> NoFile]
    /\ rpc = [r \in Readers |-> "idle"]
    /\ ropened = [r \in Readers |-> NoAdmin]
    /\ unread = [r \in Readers |-> {}]
    /\ view = [r \in Readers |-> NoRows]

-----------------------------------------------------------------------------
(* Steps every command shares. *)

Goes(a, there) == pc' = [pc EXCEPT ![a] = there]
Ends(a, how)   == /\ Goes(a, "done")
                  /\ result' = [result EXCEPT ![a] = how]

\* Store::open: the file must be there with its schema.
Open(a, c) ==
    /\ pc[a] = "new" /\ c.op # "init"
    /\ command' = [command EXCEPT ![a] = c]
    /\ IF database # NoAdmin /\ stored[database].schema
         THEN /\ Goes(a, "open")
              /\ opened' = [opened EXCEPT ![a] = database]
              /\ UNCHANGED result
         ELSE /\ Ends(a, "failed")
              /\ UNCHANGED opened
    /\ UNCHANGED <<draft, database, stored, files, readerVars>>

\* Mutant: the limit is tested with > instead of >=.
Permitted_OffByOne(a) ==
    LET c == command[a]
        rows == stored[opened[a]].rows
    IN  /\ c.op = "register" => /\ Cardinality(Registered(rows)) <= MaxRegistrations
                                /\ rows[c.id] = Absent
        /\ c.op = "rotate" => rows[c.id] # Absent

\* What the transaction changes, if its statements all succeed.
Permitted(a) ==
    LET c == command[a]
        rows == stored[opened[a]].rows
    IN  /\ c.op = "register" => /\ Cardinality(Registered(rows)) < MaxRegistrations
                                /\ rows[c.id] = Absent
        /\ c.op = "rotate" => rows[c.id] # Absent

\* The row it finds.
OldRow(a) == stored[opened[a]].rows[command[a].id]

\* Mutant: a rotation that leaves the hash alone.
NewRow_KeepsCredential(a) ==
    IF command[a].op = "register" THEN [credential |-> a, active |-> TRUE]
    ELSE [credential |-> OldRow(a).credential, active |-> Issues(a)]

\* The row a command writes, and whether it writes one.
NewRow(a) ==
    IF Issues(a) THEN [credential |-> a, active |-> TRUE]
    ELSE [credential |-> OldRow(a).credential, active |-> FALSE]
Writes(a) == Issues(a) \/ OldRow(a).active

\* Mutant: a rotation is not audited.
Draft_RotateUnaudited(a) ==
    LET before == stored[opened[a]]
        c == command[a]
    IN  IF ~Writes(a) THEN before
        ELSE [schema |-> before.schema,
              rows   |-> [before.rows EXCEPT ![c.id] = NewRow(a)],
              audit  |-> IF c.op = "rotate" THEN before.audit
                         ELSE Append(before.audit, [op |-> c.op, id |-> c.id, by |-> a])]

Draft(a) ==
    LET before == stored[opened[a]]
        c == command[a]
    IN  IF Writes(a)
        THEN [schema |-> before.schema,
              rows   |-> [before.rows EXCEPT ![c.id] = NewRow(a)],
              audit  |-> Append(before.audit, [op |-> c.op, id |-> c.id, by |-> a])]
        ELSE before

\* Mutant: a DEFERRED transaction that does not wait for the other writer.
Begin_Deferred(a) ==
    /\ pc[a] = "open" /\ opened[a] = database
    /\ IF Permitted(a)
         THEN Goes(a, "drafted") /\ draft' = [draft EXCEPT ![a] = Draft(a)] /\ UNCHANGED result
         ELSE Ends(a, "failed") /\ UNCHANGED draft
    /\ UNCHANGED <<command, opened, database, stored, files, readerVars>>

\* check_files, BEGIN IMMEDIATE, the statements and the audit event.  The draft
\* is visible to no one else.
Begin(a) ==
    /\ pc[a] = "open"
    /\ opened[a] = database /\ Writers(database) = {}
    /\ IF Permitted(a)
         THEN /\ Goes(a, "drafted")
              /\ draft' = [draft EXCEPT ![a] = Draft(a)]
              /\ UNCHANGED result
         ELSE /\ Ends(a, "failed")
              /\ UNCHANGED draft
    /\ UNCHANGED <<command, opened, database, stored, files, readerVars>>

\* The file was replaced since it was opened, or the busy timeout passed.
BeginFails(a) ==
    /\ pc[a] = "open"
    /\ opened[a] # database \/ Writers(database) # {}
    /\ Ends(a, "failed")
    /\ UNCHANGED <<command, opened, draft, database, stored, files, readerVars>>

\* Mutant: the commit comes before the delivery.
StartCommit_BeforeDelivery(a) ==
    /\ pc[a] = "drafted"
    /\ Goes(a, "committing")
    /\ UNCHANGED <<command, result, opened, draft, database, stored, files,
                   readerVars>>

\* COMMIT takes its lock: new readers stay out from here on.
StartCommit(a) ==
    /\ \/ pc[a] = "ready"
       \/ pc[a] = "drafted" /\ ~Issues(a)
    /\ Goes(a, "committing")
    /\ UNCHANGED <<command, result, opened, draft, database, stored, files,
                   readerVars>>

Commit(a) ==
    /\ pc[a] = "committing" /\ Reading(opened[a]) = {}
    /\ stored' = [stored EXCEPT ![opened[a]] = draft[a]]
    /\ Goes(a, "committed")
    /\ UNCHANGED <<command, result, opened, draft, database, files, readerVars>>

\* A reader outlasted the busy timeout, or the disk failed: rolled back.
CommitFails(a) ==
    /\ pc[a] = "committing"
    /\ \/ Issues(a) /\ Goes(a, "uncommitted") /\ UNCHANGED result
       \/ command[a].op = "init" /\ Goes(a, "uninitialized") /\ UNCHANGED result
       \/ command[a].op = "revoke" /\ Ends(a, "failed")
    /\ UNCHANGED <<command, opened, draft, database, stored, files, readerVars>>

\* The result is written to standard output after the commit.  Where that fails (a
\* closed pipe, a full disk) so does the command, and what it did stays done: the
\* change is in the store, and the credential file or the database is kept.
Report(a) ==
    /\ pc[a] = "committed"
    /\ \E how \in {"ok", "failed"} : Ends(a, how)
    /\ UNCHANGED <<command, opened, draft, database, stored, files, readerVars>>

\* The process is killed: its transaction rolls back, no destructor runs.
Crash(a) ==
    /\ pc[a] \notin {"new", "done"}
    /\ Ends(a, "crashed")
    /\ UNCHANGED <<command, opened, draft, database, stored, files, readerVars>>

-----------------------------------------------------------------------------
(* PendingCredential: the output file of an issue. *)

Output(a) == command[a].out

\* create_new: a path that exists is never opened.
CreateOutput(a) ==
    /\ pc[a] = "drafted" /\ Issues(a)
    /\ files[Output(a)] = NoFile
    /\ files' = [files EXCEPT ![Output(a)] = [of |-> a, whole |-> FALSE]]
    /\ Goes(a, "writing")
    /\ UNCHANGED <<command, result, opened, draft, database, stored, readerVars>>

\* The path exists, or its directory does not: rolled back, nothing removed.
OutputRefused(a) ==
    /\ pc[a] = "drafted" /\ Issues(a)
    /\ Ends(a, "failed")
    /\ UNCHANGED <<command, opened, draft, database, stored, files, readerVars>>

\* Written, and the file and its directory synchronized.
WriteOutput(a) ==
    /\ pc[a] = "writing"
    /\ files' = [files EXCEPT ![Output(a)] = [of |-> @.of, whole |-> TRUE]]
    /\ Goes(a, "ready")
    /\ UNCHANGED <<command, result, opened, draft, database, stored, readerVars>>

WriteFails(a) ==
    /\ pc[a] = "writing"
    /\ Goes(a, "unwritten")
    /\ UNCHANGED <<command, result, opened, draft, database, stored, files,
                   readerVars>>

\* Drop without the committed flag.  After a failed write the transaction is
\* still open and rolls back next; after a failed commit it already has.  That the
\* removal works, here and in RemoveDatabase, is assumed: the code ignores its error.
RemoveOutput(a) ==
    /\ pc[a] \in {"unwritten", "uncommitted"}
    /\ files' = [files EXCEPT ![Output(a)] = NoFile]
    /\ Ends(a, "failed")
    /\ UNCHANGED <<command, opened, draft, database, stored, readerVars>>

-----------------------------------------------------------------------------
(* `admin init`. *)

\* Mutant: the cleanup also runs when the file was already there.
CreateDatabase_CleansUp(a, c) ==
    /\ pc[a] = "new" /\ c.op = "init"
    /\ command' = [command EXCEPT ![a] = c]
    /\ IF database = NoAdmin
         THEN Goes(a, "created") /\ database' = a /\ opened' = [opened EXCEPT ![a] = a]
         ELSE Goes(a, "uninitialized") /\ UNCHANGED <<database, opened>>
    /\ UNCHANGED <<result, draft, stored, files, readerVars>>

\* create_new of the database file.
CreateDatabase(a, c) ==
    /\ pc[a] = "new" /\ c.op = "init"
    /\ command' = [command EXCEPT ![a] = c]
    /\ IF database = NoAdmin
         THEN /\ Goes(a, "created")
              /\ database' = a
              /\ opened' = [opened EXCEPT ![a] = a]
              /\ UNCHANGED result
         ELSE /\ Ends(a, "failed")
              /\ UNCHANGED <<database, opened>>
    /\ UNCHANGED <<draft, stored, files, readerVars>>

\* Its mode is not set, or the empty file or its directory not synchronized: `?`
\* returns before the part that cleans up, and the empty file stays.
CreateFails(a) ==
    /\ pc[a] = "created"
    /\ Ends(a, "failed")
    /\ UNCHANGED <<command, opened, draft, database, stored, files, readerVars>>

\* Its transaction: the schema and the first audit event.
DraftSchema(a) ==
    /\ pc[a] = "created"
    /\ draft' = [draft EXCEPT ![a] =
          [schema |-> TRUE, rows |-> NoRows,
           audit |-> <<[op |-> "init", id |-> command[a].id, by |-> a]>>]]
    /\ Goes(a, "drafted")
    /\ UNCHANGED <<command, result, opened, database, stored, files, readerVars>>

\* connect, the statements or the synchronization after the commit failed.
InitFails(a) ==
    /\ \/ pc[a] = "created"
       \/ pc[a] \in {"drafted", "committed"} /\ command[a].op = "init"
    /\ Goes(a, "uninitialized")
    /\ UNCHANGED <<command, result, opened, draft, database, stored, files,
                   readerVars>>

RemoveDatabase(a) ==
    /\ pc[a] = "uninitialized"
    /\ database' = NoAdmin
    /\ Ends(a, "failed")
    /\ UNCHANGED <<command, opened, draft, stored, files, readerVars>>

-----------------------------------------------------------------------------
(* Store::open and Store::snapshot by a reader. *)

BeginRead(r) ==
    /\ rpc[r] = "idle"
    /\ database # NoAdmin /\ stored[database].schema /\ ~Blocked(database)
    /\ rpc' = [rpc EXCEPT ![r] = "reading"]
    /\ ropened' = [ropened EXCEPT ![r] = database]
    /\ unread' = [unread EXCEPT ![r] = Ids]
    /\ view' = [view EXCEPT ![r] = NoRows]
    /\ UNCHANGED <<adminVars, database, stored, files>>

ReadRow(r) ==
    /\ rpc[r] = "reading"
    /\ \E i \in unread[r] :
         /\ view' = [view EXCEPT ![r] = [@ EXCEPT ![i] = stored[ropened[r]].rows[i]]]
         /\ unread' = [unread EXCEPT ![r] = @ \ {i}]
    /\ UNCHANGED <<adminVars, database, stored, files, rpc, ropened>>

\* Returned, or given up: the limit is exceeded, the file replaced, the disk bad.
EndRead(r) ==
    /\ rpc[r] = "reading"
    /\ rpc' = [rpc EXCEPT ![r] = "idle"]
    /\ ropened' = [ropened EXCEPT ![r] = NoAdmin]
    /\ unread' = [unread EXCEPT ![r] = {}]
    /\ view' = [view EXCEPT ![r] = NoRows]
    /\ UNCHANGED <<adminVars, database, stored, files>>

AdminStep(a) ==
    \/ \E c \in Commands : Open(a, c) \/ CreateDatabase(a, c)
    \/ Begin(a) \/ BeginFails(a) \/ StartCommit(a) \/ Commit(a) \/ CommitFails(a)
    \/ Report(a) \/ Crash(a)
    \/ CreateOutput(a) \/ OutputRefused(a) \/ WriteOutput(a) \/ WriteFails(a)
    \/ RemoveOutput(a)
    \/ CreateFails(a) \/ DraftSchema(a) \/ InitFails(a) \/ RemoveDatabase(a)

ReaderStep(r) == BeginRead(r) \/ ReadRow(r) \/ EndRead(r)

Next == (\E a \in Admins : AdminStep(a)) \/ (\E r \in Readers : ReaderStep(r))

Spec == Init /\ [][Next]_vars

-----------------------------------------------------------------------------
(* Properties. *)

Events(n) == {stored[n].audit[k] : k \in DOMAIN stored[n].audit}

\* A committed credential was delivered, whatever failed or crashed since: its
\* file holds all of it.  A command that failed leaves a file behind only if its
\* credential was committed, so that what failed was the report
\* (admin.rs:3-6, 278-280, 468-475, 512-514); without a commit only a crash leaves one.
DeliveryMatchesOutcome ==
    /\ \A n \in Admins : \A e \in Events(n) :
           e.op \in IssueKinds =>
               files[Output(e.by)] = [of |-> e.by, whole |-> TRUE]
    /\ \A f \in Files : files[f] # NoFile =>
           LET a == files[f].of
           IN  result[a] = "failed" => \E e \in Events(opened[a]) : e.by = a

\* The k-th event of a log is the latest of these kinds about the id.
Latest(log, i, kinds, k) ==
    /\ log[k].id = i /\ log[k].op \in kinds
    /\ \A l \in DOMAIN log : l > k => log[l].id # i \/ log[l].op \notin kinds

\* The audit log explains the registrations, whichever processes wrote and failed:
\* a tether is registered if the log has an issue for it, with the credential of the
\* latest one, and is active if no revocation came later (admin.rs:277, 297).
AuditExplainsRows ==
    \A n \in Admins : \A i \in Ids :
        LET log == stored[n].audit
            row == stored[n].rows[i]
        IN  /\ row # Absent <=> \E k \in DOMAIN log : Latest(log, i, IssueKinds, k)
            /\ \A k \in DOMAIN log : Latest(log, i, IssueKinds, k) => row.credential = log[k].by
            /\ \A k \in DOMAIN log : Latest(log, i, ChangeKinds, k) =>
                   (row.active <=> log[k].op \in IssueKinds)

\* What a command reported is what the store holds, whatever the others do after it:
\* an issue or an initialization that succeeded has its event in the store it opened.
\* However a command ended, it is at most once in any log, and in no store but that
\* one: a second writer neither undoes nor repeats the first (admin.rs:230-301).
OutcomeIsTrue ==
    \A a \in Admins :
        LET Mine(n) == {k \in DOMAIN stored[n].audit : stored[n].audit[k].by = a}
        IN  /\ result[a] = "ok" /\ (Issues(a) \/ command[a].op = "init") =>
                 Mine(opened[a]) # {}
            /\ \A n \in Admins : \A k, l \in Mine(n) : n = opened[a] /\ k = l

\* A store whose initialization was reported is not removed by another one
\* (admin.rs:85-90, 105: only the process that created the file removes it).
InitializedStays ==
    \A a \in Admins :
        result[a] = "ok" /\ command[a].op = "init" => database = a

\* A reader sees the rows of one committed store, never a mixture of two
\* (admin.rs:168-209).
SnapshotIsCommitted ==
    \A r \in Readers : rpc[r] = "reading" =>
        \A i \in Ids \ unread[r] : view[r][i] = stored[ropened[r]].rows[i]

\* Concurrent registrations never exceed the limit, beyond which every
\* snapshot would fail and clear the hub's authorization (admin.rs:202, 259).
StoreStaysReadable ==
    \A n \in Admins : Cardinality(Registered(stored[n].rows)) <= MaxRegistrations

\* The credentials a store admits, and those it once issued and no longer does.
Admitted(s) == {s.rows[i].credential : i \in {j \in Ids : s.rows[j].active}}
Retired(s)  == {s.audit[k].by : k \in {j \in DOMAIN s.audit :
                    s.audit[j].op \in IssueKinds}} \ Admitted(s)

\* A credential that was revoked or rotated away is never admitted again, not
\* even when its registration is reactivated (admin.rs:268-271).
RetiredStaysRetired ==
    [][\A n \in Admins : Retired(stored[n]) \cap Admitted(stored'[n]) = {}]_vars
=============================================================================
