--------------------------- MODULE AdminStoreProofs ---------------------------
(***************************************************************************)
(* The safety of the administration store, for any number of processes,     *)
(* readers, tethers and output files, and any limit on registrations.       *)
(*                                                                         *)
(* A store changes in one step only, a commit, and what that step writes    *)
(* was computed from the store as it still is: the write lock keeps every   *)
(* other transaction on that inode out.  Each event of a log belongs to a   *)
(* process that committed it, once, and whose credential was in its file    *)
(* by then.                                                                 *)
(***************************************************************************)
EXTENDS AdminStore, FiniteSetTheorems, TLAPS

TypeInv ==
    /\ pc \in [Admins -> {"new", "open", "created", "drafted", "writing", "unwritten",
                          "ready", "committing", "committed", "uncommitted",
                          "uninitialized", "done"}]
    /\ command \in [Admins -> Commands \cup {NoCommand}]
    /\ result \in [Admins -> {"none", "ok", "failed", "crashed"}]
    /\ opened \in [Admins -> Admins \cup {NoAdmin}]
    /\ draft \in [Admins -> Store]
    /\ database \in Admins \cup {NoAdmin}
    /\ stored \in [Admins -> Store]
    /\ files \in [Files -> [of : Admins \cup {NoAdmin}, whole : BOOLEAN]]
    /\ rpc \in [Readers -> {"idle", "reading"}]
    /\ ropened \in [Readers -> Admins \cup {NoAdmin}]
    /\ unread \in [Readers -> SUBSET Ids]
    /\ view \in [Readers -> Rows]

\* What the place of an invocation says of it, and that of a reader.
Places == \A a \in Admins :
    /\ pc[a] = "new" <=> command[a] = NoCommand
    /\ pc[a] = "new" => opened[a] = NoAdmin
    /\ pc[a] = "done" <=> result[a] # "none"
    /\ pc[a] \in {"created", "uninitialized"} => command[a].op = "init"
    /\ pc[a] = "open" => command[a].op # "init"
    /\ pc[a] \in {"writing", "unwritten", "ready", "uncommitted"} => Issues(a)
    /\ pc[a] \notin {"new", "done"} \/ result[a] = "ok" => opened[a] # NoAdmin
Progress == Places /\ \A r \in Readers : rpc[r] = "reading" => ropened[r] # NoAdmin

\* Each inode was created by an initialization, which is its only owner; the one at
\* the path is of an initialization, and it is that of each that has not failed.  One
\* that failed may have left its inode there, empty or whole.
Inodes ==
    /\ \A a \in Admins : opened[a] # NoAdmin =>
         /\ command[opened[a]].op = "init" /\ opened[opened[a]] = opened[a]
         /\ command[a].op = "init" => opened[a] = a
         /\ command[a].op # "init" => stored[opened[a]].schema
    /\ \A n \in Admins :
         /\ database = n => opened[n] = n
         /\ opened[n] = n /\ result[n] # "failed" => database = n
    /\ \A n \in Admins : stored[n].schema =>
         command[n].op = "init" /\ pc[n] \notin {"new", "created", "drafted", "committing"}
    /\ \A n \in Admins : ~stored[n].schema => stored[n] = EmptyStore

\* A transaction has the lock of its inode, and its draft is of the store as it is.
FirstStore(a) ==
    [schema |-> TRUE, rows |-> NoRows,
     audit |-> <<[op |-> "init", id |-> command[a].id, by |-> a]>>]
Drafts == \A a \in Admins : pc[a] \in InTransaction =>
    /\ \A b \in Admins : pc[b] \in InTransaction /\ opened[b] = opened[a] => b = a
    /\ command[a].op = "init" => draft[a] = FirstStore(a)
    /\ command[a].op # "init" => Permitted(a) /\ draft[a] = Draft(a)

\* Each event is of a process that may have committed, in this store only and once; and
\* one that committed a change, whatever it could report of it, has its event there.
Committed(a) ==
    pc[a] \in {"committed", "uninitialized"} \/ result[a] \in {"ok", "failed", "crashed"}
Audited(a) == \E k \in DOMAIN stored[opened[a]].audit : stored[opened[a]].audit[k].by = a
Logs ==
    /\ \A n \in Admins, a \in Admins : \A k \in DOMAIN stored[n].audit :
         stored[n].audit[k].by = a =>
           /\ opened[a] = n /\ stored[n].audit[k].op = command[a].op /\ Committed(a)
           /\ \A l \in DOMAIN stored[n].audit : stored[n].audit[l].by = a => l = k
    /\ \A a \in Admins :
         (pc[a] = "committed" \/ result[a] = "ok") /\ (Issues(a) \/ command[a].op = "init") =>
             Audited(a)

\* A credential is in its file, and whole before the transaction may commit; a failed
\* issue holds a file only if its change is in the log.
Outputs ==
    /\ \A a \in Admins : Issues(a) =>
         /\ pc[a] \in {"writing", "unwritten"} =>
              files[Output(a)] = [of |-> a, whole |-> FALSE]
         /\ pc[a] \in {"ready", "committing", "uncommitted", "committed"} =>
              files[Output(a)] = [of |-> a, whole |-> TRUE]
    /\ \A f \in Files : files[f].of = NoAdmin => files[f] = NoFile
    /\ \A f \in Files, a \in Admins : files[f].of = a =>
         /\ Issues(a) /\ Output(a) = f
         /\ pc[a] \notin {"open", "drafted"} /\ opened[a] # NoAdmin
         /\ result[a] = "failed" => Audited(a)
    /\ \A n \in Admins, a \in Admins : \A k \in DOMAIN stored[n].audit :
         stored[n].audit[k].by = a /\ stored[n].audit[k].op \in IssueKinds =>
             files[Output(a)] = [of |-> a, whole |-> TRUE]

Limit == \A n \in Admins :
    /\ IsFiniteSet(Registered(stored[n].rows))
    /\ Cardinality(Registered(stored[n].rows)) <= MaxRegistrations

StoreInv ==
    /\ TypeInv /\ Progress /\ Inodes /\ Drafts /\ Logs /\ Outputs
    /\ SnapshotIsCommitted /\ Limit /\ AuditExplainsRows
-----------------------------------------------------------------------------
(* Types *)

\* The empty store, and the first one, are stores.
LEMMA FirstStores ==
    /\ NoRows \in Rows /\ EmptyStore \in Store
    /\ \A a \in Admins : command[a] \in CommandSpace /\ command[a].op = "init" => FirstStore(a) \in Store
  <1>1. NoRows \in Rows
    BY DEF NoRows, Rows
  <1>2. EmptyStore \in Store
    BY <1>1 DEF EmptyStore, Store
  <1>3. ASSUME NEW a \in Admins, command[a] \in CommandSpace, command[a].op = "init"
        PROVE  FirstStore(a) \in Store
    <2>1. [op |-> "init", id |-> command[a].id, by |-> a] \in Event
      BY <1>3 DEF CommandSpace, Event
    <2>2. <<[op |-> "init", id |-> command[a].id, by |-> a]>> \in Seq(Event)
      BY <2>1
    <2> QED
      BY <1>1, <2>2 DEF FirstStore, Store
  <1> QED
    BY <1>1, <1>2, <1>3

\* What a transaction makes of a store is a store.
LEMMA DraftType ==
    ASSUME TypeInv, Progress, NEW a \in Admins, opened[a] # NoAdmin,
           pc[a] # "new", command[a].op # "init"
    PROVE  Draft(a) \in Store
  <1>1. command[a] \in CommandSpace
    BY CommandAssumption DEF TypeInv, Progress, Places
  <1>2. /\ command[a].id \in Ids /\ command[a].op \in ChangeKinds
        /\ stored[opened[a]] \in Store
    BY <1>1 DEF TypeInv, CommandSpace, ChangeKinds
  <1>3. PICK before \in Store : before = stored[opened[a]]
    BY <1>2
  <1>4. /\ before.schema \in BOOLEAN /\ before.rows \in Rows /\ before.audit \in Seq(Event)
        /\ OldRow(a) \in Registration \cup {Absent}
    BY <1>2, <1>3 DEF Store, OldRow, Rows
  <1>5. Writes(a) => NewRow(a) \in Registration
    <2>1. CASE Issues(a)
      BY <2>1 DEF NewRow, Registration
    <2>2. CASE ~Issues(a) /\ OldRow(a).active
      <3>1. OldRow(a) \in Registration
        BY <1>4, <2>2 DEF Absent
      <3> QED
        BY <2>2, <3>1 DEF NewRow, Registration
    <2> QED
      BY <2>1, <2>2 DEF Writes
  <1>6. Writes(a) => [before.rows EXCEPT ![command[a].id] = NewRow(a)] \in Rows
    BY <1>2, <1>4, <1>5 DEF Rows
  <1>7. [op |-> command[a].op, id |-> command[a].id, by |-> a] \in Event
    BY <1>2 DEF Event
  <1>8. Append(before.audit, [op |-> command[a].op, id |-> command[a].id, by |-> a]) \in Seq(Event)
    BY <1>4, <1>7
  <1>9. CASE Writes(a)
    BY <1>3, <1>4, <1>6, <1>8, <1>9 DEF Draft, Store
  <1>10. CASE ~Writes(a)
    BY <1>3, <1>10 DEF Draft
  <1> QED
    BY <1>9, <1>10

\* The types hold at first.
LEMMA TypeInit == Init => TypeInv
  BY FirstStores DEF Init, TypeInv, NoFile

\* Every step keeps them.
LEMMA TypeStep == TypeInv /\ Progress /\ [Next]_vars => TypeInv'
  <1> SUFFICES ASSUME TypeInv, Progress, [Next]_vars PROVE TypeInv'
    OBVIOUS
  <1> USE DEF TypeInv, Goes, Ends, adminVars, readerVars
  <1>1. ASSUME NEW a \in Admins, NEW c \in Commands, Open(a, c) PROVE TypeInv'
    BY <1>1 DEF Open
  <1>2. ASSUME NEW a \in Admins, NEW c \in Commands, CreateDatabase(a, c) PROVE TypeInv'
    BY <1>2 DEF CreateDatabase
  <1>3. ASSUME NEW a \in Admins, Begin(a) PROVE TypeInv'
    <2>1. Draft(a) \in Store
      BY <1>3, DraftType DEF Begin, Progress, Places
    <2> QED
      BY <1>3, <2>1 DEF Begin
  <1>4. ASSUME NEW a \in Admins, BeginFails(a) PROVE TypeInv'
    BY <1>4 DEF BeginFails
  <1>5. ASSUME NEW a \in Admins, StartCommit(a) PROVE TypeInv'
    BY <1>5 DEF StartCommit
  <1>6. ASSUME NEW a \in Admins, Commit(a) PROVE TypeInv'
    BY <1>6 DEF Commit, Progress, Places
  <1>7. ASSUME NEW a \in Admins, CommitFails(a) PROVE TypeInv'
    BY <1>7 DEF CommitFails
  <1>8. ASSUME NEW a \in Admins, Report(a) PROVE TypeInv'
    BY <1>8 DEF Report
  <1>9. ASSUME NEW a \in Admins, Crash(a) PROVE TypeInv'
    BY <1>9 DEF Crash
  <1>10. ASSUME NEW a \in Admins, CreateOutput(a) PROVE TypeInv'
    <2>1. [of |-> a, whole |-> FALSE] \in [of : Admins \cup {NoAdmin}, whole : BOOLEAN]
      OBVIOUS
    <2> QED
      BY <1>10, <2>1 DEF CreateOutput
  <1>11. ASSUME NEW a \in Admins, OutputRefused(a) PROVE TypeInv'
    BY <1>11 DEF OutputRefused
  <1>12. ASSUME NEW a \in Admins, WriteOutput(a) PROVE TypeInv'
    <2>1. files[Output(a)].of \in Admins \cup {NoAdmin} \/ Output(a) \notin Files
      OBVIOUS
    <2> QED
      BY <1>12, <2>1 DEF WriteOutput
  <1>13. ASSUME NEW a \in Admins, WriteFails(a) PROVE TypeInv'
    BY <1>13 DEF WriteFails
  <1>14. ASSUME NEW a \in Admins, RemoveOutput(a) PROVE TypeInv'
    <2>1. NoFile \in [of : Admins \cup {NoAdmin}, whole : BOOLEAN]
      BY DEF NoFile
    <2> QED
      BY <1>14, <2>1 DEF RemoveOutput
  <1>15. ASSUME NEW a \in Admins, DraftSchema(a) PROVE TypeInv'
    <2>1. command[a] \in CommandSpace /\ command[a].op = "init"
      BY <1>15, CommandAssumption DEF DraftSchema, Progress, Places
    <2>2. FirstStore(a) \in Store
      BY <2>1, FirstStores
    <2> QED
      BY <1>15, <2>2 DEF DraftSchema, FirstStore
  <1>empty. ASSUME NEW a \in Admins, CreateFails(a) PROVE TypeInv'
    BY <1>empty DEF CreateFails
  <1>16. ASSUME NEW a \in Admins, InitFails(a) PROVE TypeInv'
    BY <1>16 DEF InitFails
  <1>17. ASSUME NEW a \in Admins, RemoveDatabase(a) PROVE TypeInv'
    BY <1>17 DEF RemoveDatabase
  <1>18. ASSUME NEW r \in Readers, BeginRead(r) PROVE TypeInv'
    BY <1>18, FirstStores DEF BeginRead
  <1>19. ASSUME NEW r \in Readers, ReadRow(r) PROVE TypeInv'
    <2>1. PICK i \in unread[r] :
            view' = [view EXCEPT ![r] = [@ EXCEPT ![i] = stored[ropened[r]].rows[i]]]
            /\ unread' = [unread EXCEPT ![r] = @ \ {i}]
      BY <1>19 DEF ReadRow
    <2>2. stored[ropened[r]].rows[i] \in Registration \cup {Absent}
      <3>1. stored[ropened[r]] \in Store
        BY <1>19 DEF ReadRow, Progress
      <3> QED
        BY <2>1, <3>1 DEF Store, Rows
    <2>3. [view[r] EXCEPT ![i] = stored[ropened[r]].rows[i]] \in Rows
      BY <2>1, <2>2 DEF Rows
    <2> QED
      BY <1>19, <2>1, <2>3 DEF ReadRow
  <1>20. ASSUME NEW r \in Readers, EndRead(r) PROVE TypeInv'
    BY <1>20, FirstStores DEF EndRead
  <1>21. CASE UNCHANGED vars
    BY <1>21 DEF vars
  <1> QED
    BY <1>1, <1>2, <1>3, <1>4, <1>5, <1>6, <1>7, <1>8, <1>9, <1>10, <1>11, <1>12, <1>13,
       <1>14, <1>15, <1>empty, <1>16, <1>17, <1>18, <1>19, <1>20, <1>21
    DEF Next, AdminStep, ReaderStep

-----------------------------------------------------------------------------
(* Places and inodes *)

\* What a command is.
LEMMA CommandKinds ==
    /\ \A c \in Commands : /\ c.op \in {"init", "register", "rotate", "revoke"}
                          /\ c.id \in Ids /\ c.out \in Files /\ c # NoCommand
    /\ NoCommand.op = "none"
  BY CommandAssumption DEF CommandSpace, NoCommand

\* An invocation that runs has a command.
LEMMA HasCommand ==
    ASSUME TypeInv, Progress, NEW a \in Admins
    PROVE  /\ pc[a] # "new" => command[a] \in Commands
           /\ pc[a] = "new" => command[a].op = "none"
  BY CommandKinds DEF TypeInv, Progress, Places

\* The places hold at first.
LEMMA ProgressInit == Init => Progress
  BY CommandKinds, NoAdminAssumption DEF Init, Progress, Places, Issues, IssueKinds

\* Every step keeps them.
LEMMA PlacesStep == TypeInv /\ Progress /\ [Next]_vars => Places'
  <1> SUFFICES ASSUME TypeInv, Progress, [Next]_vars PROVE Places'
    OBVIOUS
  <1> USE DEF TypeInv, Progress, Places, Goes, Ends, adminVars, readerVars, Issues, IssueKinds
  <1>1. ASSUME NEW a \in Admins, NEW c \in Commands, Open(a, c) PROVE Places'
    BY <1>1, NoAdminAssumption, CommandKinds DEF Open
  <1>2. ASSUME NEW a \in Admins, NEW c \in Commands, CreateDatabase(a, c) PROVE Places'
    BY <1>2, NoAdminAssumption, CommandKinds DEF CreateDatabase
  <1>3. ASSUME NEW a \in Admins, Begin(a) PROVE Places'
    BY <1>3, NoAdminAssumption, CommandKinds DEF Begin
  <1>4. ASSUME NEW a \in Admins, BeginFails(a) PROVE Places'
    BY <1>4, NoAdminAssumption, CommandKinds DEF BeginFails
  <1>5. ASSUME NEW a \in Admins, StartCommit(a) PROVE Places'
    BY <1>5, HasCommand, CommandKinds DEF StartCommit
  <1>6. ASSUME NEW a \in Admins, Commit(a) PROVE Places'
    BY <1>6, NoAdminAssumption, CommandKinds DEF Commit
  <1>7. ASSUME NEW a \in Admins, CommitFails(a) PROVE Places'
    BY <1>7, NoAdminAssumption, CommandKinds DEF CommitFails
  <1>8. ASSUME NEW a \in Admins, Report(a) PROVE Places'
    BY <1>8, NoAdminAssumption, CommandKinds DEF Report
  <1>9. ASSUME NEW a \in Admins, Crash(a) PROVE Places'
    BY <1>9, NoAdminAssumption, CommandKinds DEF Crash
  <1>10. ASSUME NEW a \in Admins, CreateOutput(a) PROVE Places'
    BY <1>10, NoAdminAssumption, CommandKinds DEF CreateOutput
  <1>11. ASSUME NEW a \in Admins, OutputRefused(a) PROVE Places'
    BY <1>11, NoAdminAssumption, CommandKinds DEF OutputRefused
  <1>12. ASSUME NEW a \in Admins, WriteOutput(a) PROVE Places'
    BY <1>12, NoAdminAssumption, CommandKinds DEF WriteOutput
  <1>13. ASSUME NEW a \in Admins, WriteFails(a) PROVE Places'
    BY <1>13, NoAdminAssumption, CommandKinds DEF WriteFails
  <1>14. ASSUME NEW a \in Admins, RemoveOutput(a) PROVE Places'
    BY <1>14, NoAdminAssumption, CommandKinds DEF RemoveOutput
  <1>15. ASSUME NEW a \in Admins, DraftSchema(a) PROVE Places'
    BY <1>15, NoAdminAssumption, CommandKinds DEF DraftSchema
  <1>empty. ASSUME NEW a \in Admins, CreateFails(a) PROVE Places'
    BY <1>empty, NoAdminAssumption, CommandKinds DEF CreateFails
  <1>16. ASSUME NEW a \in Admins, InitFails(a) PROVE Places'
    BY <1>16, NoAdminAssumption, CommandKinds DEF InitFails
  <1>17. ASSUME NEW a \in Admins, RemoveDatabase(a) PROVE Places'
    BY <1>17, NoAdminAssumption, CommandKinds DEF RemoveDatabase
  <1>18. ASSUME NEW r \in Readers, BeginRead(r) PROVE Places'
    BY <1>18, NoAdminAssumption, CommandKinds DEF BeginRead
  <1>19. ASSUME NEW r \in Readers, ReadRow(r) PROVE Places'
    BY <1>19, NoAdminAssumption, CommandKinds DEF ReadRow
  <1>20. ASSUME NEW r \in Readers, EndRead(r) PROVE Places'
    BY <1>20, NoAdminAssumption, CommandKinds DEF EndRead
  <1>21. CASE UNCHANGED vars
    BY <1>21, NoAdminAssumption, CommandKinds DEF vars
  <1> QED
    BY <1>1, <1>2, <1>3, <1>4, <1>5, <1>6, <1>7, <1>8, <1>9, <1>10, <1>11, <1>12, <1>13,
       <1>14, <1>15, <1>empty, <1>16, <1>17, <1>18, <1>19, <1>20, <1>21
    DEF Next, AdminStep, ReaderStep

\* A reader that reads has opened a database.
LEMMA ProgressStep == TypeInv /\ Progress /\ [Next]_vars => Progress'
  <1> SUFFICES ASSUME TypeInv, Progress, [Next]_vars
               PROVE  \A r \in Readers : (rpc[r] = "reading" => ropened[r] # NoAdmin)'
    BY PlacesStep DEF Progress
  <1> USE DEF TypeInv, Progress, Goes, Ends, readerVars
  <1>1. ASSUME NEW a \in Admins, NEW c \in Commands, Open(a, c)
         PROVE  \A r1 \in Readers : (rpc[r1] = "reading" => ropened[r1] # NoAdmin)'
    BY <1>1 DEF Open
  <1>2. ASSUME NEW a \in Admins, NEW c \in Commands, CreateDatabase(a, c)
         PROVE  \A r1 \in Readers : (rpc[r1] = "reading" => ropened[r1] # NoAdmin)'
    BY <1>2 DEF CreateDatabase
  <1>3. ASSUME NEW a \in Admins, Begin(a)
         PROVE  \A r1 \in Readers : (rpc[r1] = "reading" => ropened[r1] # NoAdmin)'
    BY <1>3 DEF Begin
  <1>4. ASSUME NEW a \in Admins, BeginFails(a)
         PROVE  \A r1 \in Readers : (rpc[r1] = "reading" => ropened[r1] # NoAdmin)'
    BY <1>4 DEF BeginFails
  <1>5. ASSUME NEW a \in Admins, StartCommit(a)
         PROVE  \A r1 \in Readers : (rpc[r1] = "reading" => ropened[r1] # NoAdmin)'
    BY <1>5 DEF StartCommit
  <1>6. ASSUME NEW a \in Admins, Commit(a)
         PROVE  \A r1 \in Readers : (rpc[r1] = "reading" => ropened[r1] # NoAdmin)'
    BY <1>6 DEF Commit
  <1>7. ASSUME NEW a \in Admins, CommitFails(a)
         PROVE  \A r1 \in Readers : (rpc[r1] = "reading" => ropened[r1] # NoAdmin)'
    BY <1>7 DEF CommitFails
  <1>8. ASSUME NEW a \in Admins, Report(a)
         PROVE  \A r1 \in Readers : (rpc[r1] = "reading" => ropened[r1] # NoAdmin)'
    BY <1>8 DEF Report
  <1>9. ASSUME NEW a \in Admins, Crash(a)
         PROVE  \A r1 \in Readers : (rpc[r1] = "reading" => ropened[r1] # NoAdmin)'
    BY <1>9 DEF Crash
  <1>10. ASSUME NEW a \in Admins, CreateOutput(a)
         PROVE  \A r1 \in Readers : (rpc[r1] = "reading" => ropened[r1] # NoAdmin)'
    BY <1>10 DEF CreateOutput
  <1>11. ASSUME NEW a \in Admins, OutputRefused(a)
         PROVE  \A r1 \in Readers : (rpc[r1] = "reading" => ropened[r1] # NoAdmin)'
    BY <1>11 DEF OutputRefused
  <1>12. ASSUME NEW a \in Admins, WriteOutput(a)
         PROVE  \A r1 \in Readers : (rpc[r1] = "reading" => ropened[r1] # NoAdmin)'
    BY <1>12 DEF WriteOutput
  <1>13. ASSUME NEW a \in Admins, WriteFails(a)
         PROVE  \A r1 \in Readers : (rpc[r1] = "reading" => ropened[r1] # NoAdmin)'
    BY <1>13 DEF WriteFails
  <1>14. ASSUME NEW a \in Admins, RemoveOutput(a)
         PROVE  \A r1 \in Readers : (rpc[r1] = "reading" => ropened[r1] # NoAdmin)'
    BY <1>14 DEF RemoveOutput
  <1>15. ASSUME NEW a \in Admins, DraftSchema(a)
         PROVE  \A r1 \in Readers : (rpc[r1] = "reading" => ropened[r1] # NoAdmin)'
    BY <1>15 DEF DraftSchema
  <1>empty. ASSUME NEW a \in Admins, CreateFails(a)
         PROVE  \A r1 \in Readers : (rpc[r1] = "reading" => ropened[r1] # NoAdmin)'
    BY <1>empty DEF CreateFails
  <1>16. ASSUME NEW a \in Admins, InitFails(a)
         PROVE  \A r1 \in Readers : (rpc[r1] = "reading" => ropened[r1] # NoAdmin)'
    BY <1>16 DEF InitFails
  <1>17. ASSUME NEW a \in Admins, RemoveDatabase(a)
         PROVE  \A r1 \in Readers : (rpc[r1] = "reading" => ropened[r1] # NoAdmin)'
    BY <1>17 DEF RemoveDatabase
  <1>18. ASSUME NEW r \in Readers, BeginRead(r)
         PROVE  \A r1 \in Readers : (rpc[r1] = "reading" => ropened[r1] # NoAdmin)'
    BY <1>18 DEF BeginRead
  <1>19. ASSUME NEW r \in Readers, ReadRow(r)
         PROVE  \A r1 \in Readers : (rpc[r1] = "reading" => ropened[r1] # NoAdmin)'
    BY <1>19 DEF ReadRow
  <1>20. ASSUME NEW r \in Readers, EndRead(r)
         PROVE  \A r1 \in Readers : (rpc[r1] = "reading" => ropened[r1] # NoAdmin)'
    BY <1>20 DEF EndRead
  <1>21. CASE UNCHANGED vars
    BY <1>21 DEF vars
  <1> QED
    BY <1>1, <1>2, <1>3, <1>4, <1>5, <1>6, <1>7, <1>8, <1>9, <1>10, <1>11, <1>12, <1>13,
       <1>14, <1>15, <1>empty, <1>16, <1>17, <1>18, <1>19, <1>20, <1>21
    DEF Next, AdminStep, ReaderStep

\* Only a commit changes a store.
LEMMA StoredAction ==
    ASSUME [Next]_vars
    PROVE  stored' = stored \/ \E a \in Admins : Commit(a)
  <1>1. ASSUME NEW a \in Admins, NEW c \in Commands, Open(a, c)
         PROVE  stored' = stored \/ \E b \in Admins : Commit(b)
    BY <1>1 DEF Open
  <1>2. ASSUME NEW a \in Admins, NEW c \in Commands, CreateDatabase(a, c)
         PROVE  stored' = stored \/ \E b \in Admins : Commit(b)
    BY <1>2 DEF CreateDatabase
  <1>3. ASSUME NEW a \in Admins, Begin(a) PROVE stored' = stored \/ \E b \in Admins : Commit(b)
    BY <1>3 DEF Begin
  <1>4. ASSUME NEW a \in Admins, BeginFails(a) PROVE stored' = stored \/ \E b \in Admins : Commit(b)
    BY <1>4 DEF BeginFails
  <1>5. ASSUME NEW a \in Admins, StartCommit(a)
         PROVE  stored' = stored \/ \E b \in Admins : Commit(b)
    BY <1>5 DEF StartCommit
  <1>6. ASSUME NEW a \in Admins, Commit(a) PROVE stored' = stored \/ \E b \in Admins : Commit(b)
    BY <1>6
  <1>7. ASSUME NEW a \in Admins, CommitFails(a)
         PROVE  stored' = stored \/ \E b \in Admins : Commit(b)
    BY <1>7 DEF CommitFails
  <1>8. ASSUME NEW a \in Admins, Report(a) PROVE stored' = stored \/ \E b \in Admins : Commit(b)
    BY <1>8 DEF Report
  <1>9. ASSUME NEW a \in Admins, Crash(a) PROVE stored' = stored \/ \E b \in Admins : Commit(b)
    BY <1>9 DEF Crash
  <1>10. ASSUME NEW a \in Admins, CreateOutput(a)
         PROVE  stored' = stored \/ \E b \in Admins : Commit(b)
    BY <1>10 DEF CreateOutput
  <1>11. ASSUME NEW a \in Admins, OutputRefused(a)
         PROVE  stored' = stored \/ \E b \in Admins : Commit(b)
    BY <1>11 DEF OutputRefused
  <1>12. ASSUME NEW a \in Admins, WriteOutput(a)
         PROVE  stored' = stored \/ \E b \in Admins : Commit(b)
    BY <1>12 DEF WriteOutput
  <1>13. ASSUME NEW a \in Admins, WriteFails(a)
         PROVE  stored' = stored \/ \E b \in Admins : Commit(b)
    BY <1>13 DEF WriteFails
  <1>14. ASSUME NEW a \in Admins, RemoveOutput(a)
         PROVE  stored' = stored \/ \E b \in Admins : Commit(b)
    BY <1>14 DEF RemoveOutput
  <1>15. ASSUME NEW a \in Admins, DraftSchema(a)
         PROVE  stored' = stored \/ \E b \in Admins : Commit(b)
    BY <1>15 DEF DraftSchema
  <1>empty. ASSUME NEW a \in Admins, CreateFails(a)
            PROVE  stored' = stored \/ \E b \in Admins : Commit(b)
    BY <1>empty DEF CreateFails
  <1>16. ASSUME NEW a \in Admins, InitFails(a) PROVE stored' = stored \/ \E b \in Admins : Commit(b)
    BY <1>16 DEF InitFails
  <1>17. ASSUME NEW a \in Admins, RemoveDatabase(a)
         PROVE  stored' = stored \/ \E b \in Admins : Commit(b)
    BY <1>17 DEF RemoveDatabase
  <1>18. ASSUME NEW r \in Readers, BeginRead(r)
         PROVE  stored' = stored \/ \E b \in Admins : Commit(b)
    BY <1>18 DEF BeginRead
  <1>19. ASSUME NEW r \in Readers, ReadRow(r) PROVE stored' = stored \/ \E b \in Admins : Commit(b)
    BY <1>19 DEF ReadRow
  <1>20. ASSUME NEW r \in Readers, EndRead(r) PROVE stored' = stored \/ \E b \in Admins : Commit(b)
    BY <1>20 DEF EndRead
  <1>21. CASE UNCHANGED vars
    BY <1>21 DEF vars
  <1> QED
    BY <1>1, <1>2, <1>3, <1>4, <1>5, <1>6, <1>7, <1>8, <1>9, <1>10, <1>11, <1>12, <1>13,
       <1>14, <1>15, <1>empty, <1>16, <1>17, <1>18, <1>19, <1>20, <1>21
    DEF Next, AdminStep, ReaderStep

\* What a commit puts in place of the empty store or of the one it read.
LEMMA CommitDraft ==
    ASSUME TypeInv, Progress, Inodes, Drafts, NEW a \in Admins, Commit(a)
    PROVE  /\ opened[a] \in Admins /\ stored' = [stored EXCEPT ![opened[a]] = draft[a]]
           /\ pc[a] = "committing" /\ pc' = [pc EXCEPT ![a] = "committed"] /\ command[a] \in Commands
           /\ \/ /\ command[a].op = "init" /\ opened[a] = a /\ stored[a] = EmptyStore
                 /\ draft[a] = FirstStore(a)
              \/ /\ command[a].op # "init" /\ stored[opened[a]].schema
                 /\ Permitted(a) /\ draft[a] = Draft(a)
  <1>1. /\ opened[a] \in Admins /\ stored' = [stored EXCEPT ![opened[a]] = draft[a]]
        /\ pc[a] = "committing" /\ pc' = [pc EXCEPT ![a] = "committed"] /\ command[a] \in Commands
    BY HasCommand DEF Commit, Goes, TypeInv, Progress, Places
  <1>2. CASE command[a].op = "init"
    <2>1. opened[a] = a /\ ~stored[a].schema
      BY <1>1, <1>2, NoAdminAssumption DEF Inodes
    <2>2. stored[a] = EmptyStore
      BY <2>1 DEF Inodes
    <2> QED
      BY <1>1, <1>2, <2>1, <2>2 DEF Drafts, InTransaction
  <1>3. CASE command[a].op # "init"
    BY <1>1, <1>3, NoAdminAssumption DEF Inodes, Drafts, InTransaction
  <1> QED
    BY <1>1, <1>2, <1>3

\* A store that was initialized stays so.
LEMMA SchemaStays ==
    ASSUME TypeInv, Progress, Inodes, Drafts, [Next]_vars, NEW n \in Admins
    PROVE  /\ stored[n].schema => stored'[n].schema
           /\ stored'[n].schema /\ ~stored[n].schema => Commit(n) /\ command[n].op = "init"
           /\ ~stored'[n].schema => stored'[n] = stored[n]
  <1>1. CASE stored' = stored
    BY <1>1
  <1>2. ASSUME NEW a \in Admins, Commit(a)
        PROVE  /\ stored[n].schema => stored'[n].schema
               /\ stored'[n].schema /\ ~stored[n].schema => Commit(n) /\ command[n].op = "init"
               /\ ~stored'[n].schema => stored'[n] = stored[n]
    <2>1. CASE n # opened[a]
      BY <1>2, <2>1, CommitDraft DEF TypeInv
    <2>2. CASE n = opened[a]
      <3>1. stored'[n] = draft[a]
        BY <1>2, <2>2, CommitDraft DEF TypeInv
      <3>2. CASE command[a].op = "init"
        <4>1. n = a /\ stored[n] = EmptyStore /\ stored'[n] = FirstStore(a)
          BY <1>2, <2>2, <3>1, <3>2, CommitDraft
        <4>2. EmptyStore.schema = FALSE /\ FirstStore(a).schema = TRUE
          BY DEF FirstStore, EmptyStore
        <4> QED
          BY <1>2, <3>2, <4>1, <4>2
      <3>3. CASE command[a].op # "init"
        <4>1. stored[n].schema /\ stored'[n] = Draft(a)
          BY <1>2, <2>2, <3>1, <3>3, CommitDraft
        <4>2. Draft(a).schema = stored[opened[a]].schema
          BY DEF Draft
        <4> QED
          BY <2>2, <4>1, <4>2
      <3> QED
        BY <3>2, <3>3
    <2> QED
      BY <2>1, <2>2
  <1> QED
    BY <1>1, <1>2, StoredAction

\* The inodes hold at first.
LEMMA InodesInit == Init => Inodes
  BY NoAdminAssumption DEF Init, Inodes, EmptyStore

\* An invocation opens an inode once, and the path names a new one only by an
\* initialization.
LEMMA OpenedAction ==
    ASSUME TypeInv, Progress, Inodes, [Next]_vars, NEW n \in Admins
    PROVE  /\ \/ opened'[n] = opened[n] /\ command'[n] = command[n]
              \/ /\ opened[n] = NoAdmin /\ command[n] = NoCommand
                 /\ \/ opened'[n] = NoAdmin
                    \/ /\ command'[n].op # "init" /\ opened'[n] = database
                       /\ database # NoAdmin /\ stored[database].schema
                    \/ command'[n].op = "init" /\ opened'[n] = n
           /\ (database = n => opened[n] = n)'
           /\ (opened[n] = n /\ result[n] # "failed" => database = n)'
           /\ pc'[n] \in {"new", "created", "drafted", "committing"} /\ command[n].op = "init"
                => pc[n] \in {"new", "created", "drafted", "committing"}
  <1> DEFINE Goal ==
        /\ \/ opened'[n] = opened[n] /\ command'[n] = command[n]
           \/ /\ opened[n] = NoAdmin /\ command[n] = NoCommand
              /\ \/ opened'[n] = NoAdmin
                 \/ /\ command'[n].op # "init" /\ opened'[n] = database
                    /\ database # NoAdmin /\ stored[database].schema
                 \/ command'[n].op = "init" /\ opened'[n] = n
        /\ (database = n => opened[n] = n)'
        /\ (opened[n] = n /\ result[n] # "failed" => database = n)'
        /\ pc'[n] \in {"new", "created", "drafted", "committing"} /\ command[n].op = "init"
             => pc[n] \in {"new", "created", "drafted", "committing"}
  <1> USE DEF TypeInv, Progress, Places, Goes, Ends, adminVars, readerVars
  <1>path. /\ database = n => opened[n] = n
           /\ opened[n] = n /\ result[n] # "failed" => database = n
    BY DEF Inodes
  <1>own. \A a \in Admins : command[a].op # "init" => opened[a] # a
    BY NoAdminAssumption DEF Inodes
  <1>1. ASSUME NEW a \in Admins, NEW c \in Commands, Open(a, c) PROVE Goal
    <2>1. opened[a] = NoAdmin /\ result[a] = "none" /\ command[a] = NoCommand
      BY <1>1 DEF Open
    <2>2. database = n => opened[n] = n
      BY <1>path
    <2>3. a # n \/ database # n
      BY <2>1, <2>2, NoAdminAssumption
    <2> QED
      BY <1>1, <1>path, <2>1, <2>3, CommandKinds, NoAdminAssumption DEF Open
  <1>2. ASSUME NEW a \in Admins, NEW c \in Commands, CreateDatabase(a, c) PROVE Goal
    <2>1. opened[a] = NoAdmin /\ result[a] = "none" /\ command[a] = NoCommand
      BY <1>2 DEF CreateDatabase
    <2> QED
      BY <1>2, <1>path, <2>1, CommandKinds, NoAdminAssumption DEF CreateDatabase
  <1>3. ASSUME NEW a \in Admins, Begin(a) PROVE Goal
    BY <1>3, <1>path, <1>own, NoAdminAssumption DEF Begin
  <1>4. ASSUME NEW a \in Admins, BeginFails(a) PROVE Goal
    BY <1>4, <1>path, <1>own, NoAdminAssumption DEF BeginFails
  <1>5. ASSUME NEW a \in Admins, StartCommit(a) PROVE Goal
    BY <1>5, <1>path, CommandKinds DEF StartCommit, Issues, IssueKinds
  <1>6. ASSUME NEW a \in Admins, Commit(a) PROVE Goal
    BY <1>6, <1>path, <1>own, NoAdminAssumption DEF Commit
  <1>7. ASSUME NEW a \in Admins, CommitFails(a) PROVE Goal
    BY <1>7, <1>path, <1>own, HasCommand, CommandKinds DEF CommitFails, Issues, IssueKinds
  <1>8. ASSUME NEW a \in Admins, Report(a) PROVE Goal
    BY <1>8, <1>path, <1>own, NoAdminAssumption DEF Report
  <1>9. ASSUME NEW a \in Admins, Crash(a) PROVE Goal
    BY <1>9, <1>path, <1>own, NoAdminAssumption DEF Crash
  <1>10. ASSUME NEW a \in Admins, CreateOutput(a) PROVE Goal
    BY <1>10, <1>path, <1>own, NoAdminAssumption DEF CreateOutput
  <1>11. ASSUME NEW a \in Admins, OutputRefused(a) PROVE Goal
    <2>1. command[a].op # "init"
      BY <1>11 DEF OutputRefused, Issues, IssueKinds
    <2> QED
      BY <1>11, <1>path, <1>own, <2>1 DEF OutputRefused
  <1>12. ASSUME NEW a \in Admins, WriteOutput(a) PROVE Goal
    BY <1>12, <1>path, <1>own, NoAdminAssumption DEF WriteOutput
  <1>13. ASSUME NEW a \in Admins, WriteFails(a) PROVE Goal
    BY <1>13, <1>path, <1>own, NoAdminAssumption DEF WriteFails
  <1>14. ASSUME NEW a \in Admins, RemoveOutput(a) PROVE Goal
    <2>1. command[a].op # "init"
      BY <1>14 DEF RemoveOutput, Issues, IssueKinds
    <2> QED
      BY <1>14, <1>path, <1>own, <2>1 DEF RemoveOutput
  <1>15. ASSUME NEW a \in Admins, DraftSchema(a) PROVE Goal
    BY <1>15, <1>path, <1>own, NoAdminAssumption DEF DraftSchema
  <1>empty. ASSUME NEW a \in Admins, CreateFails(a) PROVE Goal
    BY <1>empty, <1>path, <1>own, NoAdminAssumption DEF CreateFails
  <1>16. ASSUME NEW a \in Admins, InitFails(a) PROVE Goal
    BY <1>16, <1>path DEF InitFails
  <1>17. ASSUME NEW a \in Admins, RemoveDatabase(a) PROVE Goal
    <2>1. command[a].op = "init" /\ opened[a] = a
      BY <1>17, NoAdminAssumption DEF RemoveDatabase, Inodes
    <2>2. database = a
      BY <1>17, <2>1 DEF RemoveDatabase, Inodes
    <2> QED
      BY <1>17, <1>path, <2>1, <2>2, NoAdminAssumption DEF RemoveDatabase
  <1>18. ASSUME NEW r \in Readers, BeginRead(r) PROVE Goal
    BY <1>18, <1>path, <1>own, NoAdminAssumption DEF BeginRead
  <1>19. ASSUME NEW r \in Readers, ReadRow(r) PROVE Goal
    BY <1>19, <1>path, <1>own, NoAdminAssumption DEF ReadRow
  <1>20. ASSUME NEW r \in Readers, EndRead(r) PROVE Goal
    BY <1>20, <1>path, <1>own, NoAdminAssumption DEF EndRead
  <1>21. CASE UNCHANGED vars
    BY <1>21, <1>path, <1>own, NoAdminAssumption DEF vars
  <1> QED
    BY <1>1, <1>2, <1>3, <1>4, <1>5, <1>6, <1>7, <1>8, <1>9, <1>10, <1>11, <1>12, <1>13,
       <1>14, <1>15, <1>empty, <1>16, <1>17, <1>18, <1>19, <1>20, <1>21
    DEF Next, AdminStep, ReaderStep

\* Every step keeps them.
LEMMA InodesStep ==
    ASSUME TypeInv, TypeInv', Progress, Progress', Inodes, Drafts, [Next]_vars
    PROVE  Inodes'
  <1>1. ASSUME NEW n \in Admins, opened[n] = n, command[n].op = "init"
        PROVE  opened'[n] = n /\ command'[n].op = "init"
    BY <1>1, OpenedAction, NoAdminAssumption
  <1>2. ASSUME NEW n \in Admins PROVE (~stored[n].schema => stored[n] = EmptyStore)'
    BY SchemaStays DEF Inodes
  <1>3. ASSUME NEW n \in Admins
        PROVE  (stored[n].schema => command[n].op = "init"
                                    /\ pc[n] \notin {"new", "created", "drafted", "committing"})'
    <2>1. CASE stored[n].schema
      <3>1. command[n].op = "init" /\ pc[n] \notin {"new", "created", "drafted", "committing"}
        BY <2>1 DEF Inodes
      <3>2. command'[n] = command[n]
        BY <3>1, OpenedAction, CommandKinds DEF TypeInv, Progress, Places
      <3> QED
        BY <3>1, <3>2, OpenedAction
    <2>2. CASE ~stored[n].schema /\ stored'[n].schema
      BY <2>2, SchemaStays, CommitDraft DEF Commit, TypeInv
    <2> QED
      BY <2>1, <2>2
  <1>4. ASSUME NEW a \in Admins, opened'[a] # NoAdmin
        PROVE  /\ command'[opened'[a]].op = "init" /\ opened'[opened'[a]] = opened'[a]
               /\ command'[a].op = "init" => opened'[a] = a
               /\ command'[a].op # "init" => stored'[opened'[a]].schema
    <2>1. CASE opened'[a] = opened[a] /\ command'[a] = command[a]
      <3>1. PICK n \in Admins : n = opened[a]
        BY <1>4, <2>1 DEF TypeInv
      <3>2. /\ command[n].op = "init" /\ opened[n] = n
            /\ command[a].op = "init" => opened[a] = a
            /\ command[a].op # "init" => stored[n].schema
        BY <1>4, <2>1, <3>1 DEF Inodes
      <3> QED
        BY <1>1, <2>1, <3>1, <3>2, SchemaStays
    <2>2. CASE /\ command'[a].op # "init" /\ opened'[a] = database /\ database # NoAdmin
               /\ stored[database].schema
      <3>1. PICK n \in Admins : n = database
        BY <2>2 DEF TypeInv
      <3>2. opened[n] = n /\ command[n].op = "init"
        BY <2>2, <3>1 DEF Inodes
      <3> QED
        BY <1>1, <2>2, <3>1, <3>2, SchemaStays
    <2>3. CASE command'[a].op = "init" /\ opened'[a] = a
      BY <2>3
    <2> QED
      BY <1>4, <2>1, <2>2, <2>3, OpenedAction
  <1>5. ASSUME NEW n \in Admins
        PROVE  /\ (database = n => opened[n] = n)'
               /\ (opened[n] = n /\ result[n] # "failed" => database = n)'
    BY OpenedAction
  <1> QED
    BY <1>2, <1>3, <1>4, <1>5 DEF Inodes

-----------------------------------------------------------------------------
(* Transactions *)

\* No transaction is open at first.
LEMMA DraftsInit == Init => Drafts
  BY DEF Init, Drafts, InTransaction

\* A transaction begins in two ways, and keeps its draft from there on.
LEMMA TransactionAction ==
    ASSUME TypeInv, Progress, [Next]_vars, NEW b \in Admins, pc'[b] \in InTransaction
    PROVE  /\ opened'[b] = opened[b] /\ command'[b] = command[b] /\ ~Commit(b)
           /\ \/ pc[b] \in InTransaction /\ draft'[b] = draft[b]
              \/ /\ Begin(b) /\ pc[b] = "open" /\ draft'[b] = Draft(b) /\ Permitted(b)
                 /\ UNCHANGED stored
              \/ DraftSchema(b) /\ pc[b] = "created" /\ draft'[b] = FirstStore(b)
           /\ \A a \in Admins : Begin(a) \/ DraftSchema(a) => a = b \/ pc[b] \in InTransaction
  <1> DEFINE Goal ==
        /\ opened'[b] = opened[b] /\ command'[b] = command[b]
        /\ \/ pc[b] \in InTransaction /\ draft'[b] = draft[b]
           \/ /\ Begin(b) /\ pc[b] = "open" /\ draft'[b] = Draft(b) /\ Permitted(b)
              /\ UNCHANGED stored
           \/ DraftSchema(b) /\ pc[b] = "created" /\ draft'[b] = FirstStore(b)
  <1> USE DEF TypeInv, Goes, Ends, adminVars, readerVars, InTransaction
  <1>1. ASSUME NEW a \in Admins, NEW c \in Commands, Open(a, c) PROVE Goal
    BY <1>1 DEF Open
  <1>2. ASSUME NEW a \in Admins, NEW c \in Commands, CreateDatabase(a, c) PROVE Goal
    BY <1>2 DEF CreateDatabase
  <1>3. ASSUME NEW a \in Admins, Begin(a) PROVE Goal
    <2>1. CASE a = b
      BY <1>3, <2>1 DEF Begin
    <2>2. CASE a # b
      <3>1. pc'[b] = pc[b] /\ draft'[b] = draft[b]
        BY <1>3, <2>2 DEF Begin
      <3> QED
        BY <1>3, <3>1 DEF Begin
    <2> QED
      BY <2>1, <2>2
  <1>4. ASSUME NEW a \in Admins, BeginFails(a) PROVE Goal
    BY <1>4 DEF BeginFails
  <1>5. ASSUME NEW a \in Admins, StartCommit(a) PROVE Goal
    BY <1>5 DEF StartCommit
  <1>6. ASSUME NEW a \in Admins, Commit(a) PROVE Goal
    BY <1>6 DEF Commit
  <1>7. ASSUME NEW a \in Admins, CommitFails(a) PROVE Goal
    BY <1>7 DEF CommitFails
  <1>8. ASSUME NEW a \in Admins, Report(a) PROVE Goal
    BY <1>8 DEF Report
  <1>9. ASSUME NEW a \in Admins, Crash(a) PROVE Goal
    BY <1>9 DEF Crash
  <1>10. ASSUME NEW a \in Admins, CreateOutput(a) PROVE Goal
    BY <1>10 DEF CreateOutput
  <1>11. ASSUME NEW a \in Admins, OutputRefused(a) PROVE Goal
    BY <1>11 DEF OutputRefused
  <1>12. ASSUME NEW a \in Admins, WriteOutput(a) PROVE Goal
    BY <1>12 DEF WriteOutput
  <1>13. ASSUME NEW a \in Admins, WriteFails(a) PROVE Goal
    BY <1>13 DEF WriteFails
  <1>14. ASSUME NEW a \in Admins, RemoveOutput(a) PROVE Goal
    BY <1>14 DEF RemoveOutput
  <1>15. ASSUME NEW a \in Admins, DraftSchema(a) PROVE Goal
    <2>1. CASE a = b
      BY <1>15, <2>1 DEF DraftSchema, FirstStore
    <2>2. CASE a # b
      <3>1. pc'[b] = pc[b] /\ draft'[b] = draft[b]
        BY <1>15, <2>2 DEF DraftSchema
      <3> QED
        BY <1>15, <3>1 DEF DraftSchema
    <2> QED
      BY <2>1, <2>2
  <1>empty. ASSUME NEW a \in Admins, CreateFails(a) PROVE Goal
    BY <1>empty DEF CreateFails
  <1>16. ASSUME NEW a \in Admins, InitFails(a) PROVE Goal
    BY <1>16 DEF InitFails
  <1>17. ASSUME NEW a \in Admins, RemoveDatabase(a) PROVE Goal
    BY <1>17 DEF RemoveDatabase
  <1>18. ASSUME NEW r \in Readers, BeginRead(r) PROVE Goal
    BY <1>18 DEF BeginRead
  <1>19. ASSUME NEW r \in Readers, ReadRow(r) PROVE Goal
    BY <1>19 DEF ReadRow
  <1>20. ASSUME NEW r \in Readers, EndRead(r) PROVE Goal
    BY <1>20 DEF EndRead
  <1>21. ASSUME UNCHANGED vars PROVE Goal
    BY <1>21 DEF vars
  <1>22. Goal
    BY <1>1, <1>2, <1>3, <1>4, <1>5, <1>6, <1>7, <1>8, <1>9, <1>10, <1>11, <1>12, <1>13,
       <1>14, <1>15, <1>empty, <1>16, <1>17, <1>18, <1>19, <1>20, <1>21
    DEF Next, AdminStep, ReaderStep
  <1>23. ~Commit(b)
    BY DEF Commit
  <1>24. ASSUME NEW a \in Admins, Begin(a) \/ DraftSchema(a), a # b PROVE pc[b] \in InTransaction
    BY <1>24 DEF Begin, DraftSchema
  <1> QED
    BY <1>22, <1>23, <1>24

\* Nobody writes a store under an open transaction.
LEMMA StoreUnderLock ==
    ASSUME TypeInv, Progress, Inodes, Drafts, [Next]_vars, NEW a \in Admins,
           pc[a] \in InTransaction, ~Commit(a)
    PROVE  stored'[opened[a]] = stored[opened[a]]
  <1>1. ASSUME NEW b \in Admins, Commit(b) PROVE stored'[opened[a]] = stored[opened[a]]
    <2>1. b # a /\ pc[b] \in InTransaction
      BY <1>1 DEF Commit, InTransaction
    <2>2. opened[b] # opened[a]
      BY <2>1 DEF Drafts
    <2>3. opened[a] \in Admins
      BY DEF TypeInv, Progress, Places, InTransaction
    <2> QED
      BY <1>1, <2>2, <2>3, CommitDraft DEF TypeInv
  <1> QED
    BY <1>1, StoredAction

\* A draft that nobody disturbs is still one of the store as it is.
LEMMA DraftKept ==
    ASSUME NEW a, command'[a] = command[a], opened'[a] = opened[a],
           stored'[opened[a]] = stored[opened[a]]
    PROVE  Draft(a)' = Draft(a) /\ (Permitted(a)' <=> Permitted(a)) /\ FirstStore(a)' = FirstStore(a)
  BY DEF Draft, Writes, OldRow, NewRow, Issues, Permitted, FirstStore

\* Every step keeps the lock and the drafts.
LEMMA DraftsStep ==
    ASSUME TypeInv, Progress, Inodes, Drafts, [Next]_vars
    PROVE  Drafts'
  <1>1. ASSUME NEW a \in Admins, pc'[a] \in InTransaction
        PROVE  /\ command'[a].op = "init" => draft'[a] = FirstStore(a)'
               /\ command'[a].op # "init" => Permitted(a)' /\ draft'[a] = Draft(a)'
    <2>1. CASE pc[a] \in InTransaction /\ draft'[a] = draft[a]
      BY <1>1, <2>1, TransactionAction, StoreUnderLock, DraftKept DEF Drafts
    <2>2. CASE /\ pc[a] = "open" /\ draft'[a] = Draft(a) /\ Permitted(a) /\ UNCHANGED stored
      BY <1>1, <2>2, TransactionAction, DraftKept DEF Progress, Places
    <2>3. CASE DraftSchema(a) /\ pc[a] = "created" /\ draft'[a] = FirstStore(a)
      <3>1. command'[a].op = "init"
        BY <1>1, <2>3, TransactionAction DEF Progress, Places
      <3>2. UNCHANGED stored
        BY <2>3 DEF DraftSchema
      <3> QED
        BY <1>1, <2>3, <3>1, <3>2, TransactionAction, DraftKept
    <2> QED
      BY <1>1, <2>1, <2>2, <2>3, TransactionAction
  <1>2. ASSUME NEW a \in Admins, NEW b \in Admins, pc'[a] \in InTransaction, pc'[b] \in InTransaction,
               opened'[b] = opened'[a], pc[a] \notin InTransaction
        PROVE  b = a
    <2>1. opened[b] = opened[a]
      BY <1>2, TransactionAction
    <2>2. CASE Begin(a)
      <3>1. opened[a] = database /\ Writers(database) = {}
        BY <2>2 DEF Begin
      <3>2. pc[b] \in InTransaction => b \in Writers(database)
        BY <2>1, <3>1 DEF Writers
      <3>3. pc[b] \notin InTransaction
        BY <3>1, <3>2
      <3> QED
        BY <1>2, <2>2, <3>3, TransactionAction
    <2>3. CASE DraftSchema(a)
      <3>1. pc[a] = "created" /\ command[a].op = "init" /\ opened[a] # NoAdmin
        BY <2>3 DEF DraftSchema, Progress, Places
      <3>2. opened[a] = a /\ ~stored[a].schema
        BY <3>1 DEF Inodes
      <3>3. command[b].op = "init"
        BY <2>1, <3>1, <3>2 DEF Inodes
      <3> QED
        BY <2>1, <3>1, <3>2, <3>3 DEF Inodes
    <2> QED
      BY <1>2, <2>2, <2>3, TransactionAction
  <1>3. ASSUME NEW a \in Admins, NEW b \in Admins, pc'[a] \in InTransaction, pc'[b] \in InTransaction,
               opened'[b] = opened'[a]
        PROVE  b = a
    <2>1. CASE pc[a] \in InTransaction /\ pc[b] \in InTransaction
      BY <1>3, <2>1, TransactionAction DEF Drafts
    <2>2. CASE pc[a] \notin InTransaction \/ pc[b] \notin InTransaction
      BY <1>2, <1>3, <2>2
    <2> QED
      BY <2>1, <2>2
  <1> QED
    BY <1>1, <1>3 DEF Drafts, InTransaction

-----------------------------------------------------------------------------
(* What a commit writes *)

\* A commit adds its event to the log and its row to the registrations, unless it
\* revokes what is not active.
EventOf(a) == [op |-> command[a].op, id |-> command[a].id, by |-> a]
Appends(a, n) ==
    /\ stored'[n].audit = Append(stored[n].audit, EventOf(a))
    /\ \/ command[a].op = "init" /\ stored'[n].rows = stored[n].rows
       \/ /\ command[a].op # "init" /\ Permitted(a) /\ Writes(a)
          /\ stored'[n].rows = [stored[n].rows EXCEPT ![command[a].id] = NewRow(a)]

\* A commit writes one database, and appends one event or revokes what was revoked.
LEMMA CommitWrites ==
    ASSUME TypeInv, Progress, Inodes, Drafts, NEW a \in Admins, Commit(a)
    PROVE  /\ \A n \in Admins : n # opened[a] => stored'[n] = stored[n]
           /\ Appends(a, opened[a])
              \/ (command[a].op = "revoke" /\ stored'[opened[a]] = stored[opened[a]])
  <1>1. PICK n \in Admins : n = opened[a] /\ stored' = [stored EXCEPT ![n] = draft[a]]
    BY CommitDraft
  <1>2. \A m \in Admins : m # n => stored'[m] = stored[m]
    BY <1>1 DEF TypeInv
  <1>3. stored'[n] = draft[a]
    BY <1>1 DEF TypeInv
  <1>4. CASE command[a].op = "init"
    <2>1. stored[n] = EmptyStore /\ draft[a] = FirstStore(a)
      BY <1>1, <1>4, CommitDraft
    <2>2. /\ EmptyStore.audit = <<>> /\ FirstStore(a).audit = <<EventOf(a)>>
          /\ EmptyStore.rows = FirstStore(a).rows
      BY <1>4 DEF EmptyStore, FirstStore, EventOf
    <2>3. <<EventOf(a)>> = Append(<<>>, EventOf(a))
      OBVIOUS
    <2> QED
      BY <1>1, <1>2, <1>3, <1>4, <2>1, <2>2, <2>3 DEF Appends
  <1>5. CASE command[a].op # "init"
    <2>1. Permitted(a) /\ stored'[n] = Draft(a)
      BY <1>3, <1>5, CommitDraft
    <2>2. CASE Writes(a)
      <3>1. /\ Draft(a).audit = Append(stored[n].audit, EventOf(a))
            /\ Draft(a).rows = [stored[n].rows EXCEPT ![command[a].id] = NewRow(a)]
        BY <1>1, <2>2 DEF Draft, EventOf
      <3> QED
        BY <1>1, <1>2, <1>5, <2>1, <2>2, <3>1 DEF Appends
    <2>3. CASE ~Writes(a)
      <3>1. Draft(a) = stored[n] /\ ~Issues(a)
        BY <1>1, <2>3 DEF Draft, Writes
      <3>2. command[a].op = "revoke"
        BY <1>5, <3>1, CommitDraft, CommandKinds DEF Issues, IssueKinds
      <3> QED
        BY <1>1, <1>2, <2>1, <3>1, <3>2
    <2> QED
      BY <2>2, <2>3
  <1> QED
    BY <1>4, <1>5

\* So a store either stays as it is or grows by the event of one commit.
LEMMA LogAction ==
    ASSUME TypeInv, Progress, Inodes, Drafts, [Next]_vars, NEW n \in Admins
    PROVE  stored'[n] = stored[n] \/ \E a \in Admins : Commit(a) /\ opened[a] = n /\ Appends(a, n)
  BY StoredAction, CommitWrites

\* The event of a commit, at the end of the log it joins.
LEMMA LogGrows ==
    ASSUME TypeInv, NEW n \in Admins, NEW a \in Admins, Appends(a, n)
    PROVE  /\ stored[n].audit \in Seq(Event)
           /\ Len(stored'[n].audit) = Len(stored[n].audit) + 1
           /\ DOMAIN stored[n].audit = 1..Len(stored[n].audit)
           /\ DOMAIN stored'[n].audit = 1..(Len(stored[n].audit) + 1)
           /\ \A k \in 1..Len(stored[n].audit) : stored'[n].audit[k] = stored[n].audit[k]
           /\ stored'[n].audit[Len(stored[n].audit) + 1] = EventOf(a)
           /\ EventOf(a).by = a /\ EventOf(a).op = command[a].op /\ EventOf(a).id = command[a].id
  <1>1. PICK log : log = stored[n].audit
    OBVIOUS
  <1>2. log \in Seq(Event)
    BY <1>1 DEF TypeInv, Store
  <1>3. stored'[n].audit = Append(log, EventOf(a))
    BY <1>1 DEF Appends
  <1>4. /\ Len(Append(log, EventOf(a))) = Len(log) + 1
        /\ DOMAIN log = 1..Len(log) /\ DOMAIN Append(log, EventOf(a)) = 1..(Len(log) + 1)
        /\ \A k \in 1..Len(log) : Append(log, EventOf(a))[k] = log[k]
        /\ Append(log, EventOf(a))[Len(log) + 1] = EventOf(a)
    BY <1>2
  <1>5. EventOf(a).by = a /\ EventOf(a).op = command[a].op /\ EventOf(a).id = command[a].id
    BY DEF EventOf
  <1> QED
    BY <1>1, <1>2, <1>3, <1>4, <1>5

-----------------------------------------------------------------------------
(* The log *)

\* No store has an event at first.
LEMMA LogsInit == Init => Logs
  <1> SUFFICES ASSUME Init PROVE Logs
    OBVIOUS
  <1>1. \A n \in Admins : DOMAIN stored[n].audit = {}
    BY DEF Init, EmptyStore
  <1>2. \A a \in Admins : pc[a] # "committed" /\ result[a] # "ok"
    BY DEF Init
  <1> QED
    BY <1>1, <1>2 DEF Logs

\* A process that committed has an inode and keeps it.
LEMMA CommittedStays ==
    ASSUME TypeInv, Progress, [Next]_vars, NEW b \in Admins
    PROVE  /\ opened[b] # NoAdmin /\ Committed(b) => Committed(b)'
           /\ pc'[b] = "committed" \/ result'[b] = "ok" =>
                pc[b] = "committed" \/ result[b] = "ok" \/ Commit(b)
  <1> DEFINE Goal ==
        /\ opened[b] # NoAdmin /\ Committed(b) => Committed(b)'
        /\ pc'[b] = "committed" \/ result'[b] = "ok" =>
             pc[b] = "committed" \/ result[b] = "ok" \/ Commit(b)
  <1> USE DEF TypeInv, Progress, Places, Goes, Ends, adminVars, readerVars, Committed, Issues, IssueKinds
  <1>1. ASSUME NEW a \in Admins, NEW c \in Commands, Open(a, c)
         PROVE  Goal
    BY <1>1 DEF Open
  <1>2. ASSUME NEW a \in Admins, NEW c \in Commands, CreateDatabase(a, c)
         PROVE  Goal
    BY <1>2 DEF CreateDatabase
  <1>3. ASSUME NEW a \in Admins, Begin(a)
         PROVE  Goal
    BY <1>3 DEF Begin
  <1>4. ASSUME NEW a \in Admins, BeginFails(a)
         PROVE  Goal
    BY <1>4 DEF BeginFails
  <1>5. ASSUME NEW a \in Admins, StartCommit(a)
         PROVE  Goal
    BY <1>5 DEF StartCommit
  <1>6. ASSUME NEW a \in Admins, Commit(a)
         PROVE  Goal
    BY <1>6 DEF Commit
  <1>7. ASSUME NEW a \in Admins, CommitFails(a)
         PROVE  Goal
    BY <1>7 DEF CommitFails
  <1>8. ASSUME NEW a \in Admins, Report(a)
         PROVE  Goal
    BY <1>8 DEF Report
  <1>9. ASSUME NEW a \in Admins, Crash(a)
         PROVE  Goal
    BY <1>9 DEF Crash
  <1>10. ASSUME NEW a \in Admins, CreateOutput(a)
         PROVE  Goal
    BY <1>10 DEF CreateOutput
  <1>11. ASSUME NEW a \in Admins, OutputRefused(a)
         PROVE  Goal
    BY <1>11 DEF OutputRefused
  <1>12. ASSUME NEW a \in Admins, WriteOutput(a)
         PROVE  Goal
    BY <1>12 DEF WriteOutput
  <1>13. ASSUME NEW a \in Admins, WriteFails(a)
         PROVE  Goal
    BY <1>13 DEF WriteFails
  <1>14. ASSUME NEW a \in Admins, RemoveOutput(a)
         PROVE  Goal
    BY <1>14 DEF RemoveOutput
  <1>15. ASSUME NEW a \in Admins, DraftSchema(a)
         PROVE  Goal
    BY <1>15 DEF DraftSchema
  <1>empty. ASSUME NEW a \in Admins, CreateFails(a)
         PROVE  Goal
    BY <1>empty DEF CreateFails
  <1>16. ASSUME NEW a \in Admins, InitFails(a)
         PROVE  Goal
    BY <1>16 DEF InitFails
  <1>17. ASSUME NEW a \in Admins, RemoveDatabase(a)
         PROVE  Goal
    BY <1>17 DEF RemoveDatabase
  <1>18. ASSUME NEW r \in Readers, BeginRead(r)
         PROVE  Goal
    BY <1>18 DEF BeginRead
  <1>19. ASSUME NEW r \in Readers, ReadRow(r)
         PROVE  Goal
    BY <1>19 DEF ReadRow
  <1>20. ASSUME NEW r \in Readers, EndRead(r)
         PROVE  Goal
    BY <1>20 DEF EndRead
  <1>21. CASE UNCHANGED vars
    BY <1>21 DEF vars
  <1> QED
    BY <1>1, <1>2, <1>3, <1>4, <1>5, <1>6, <1>7, <1>8, <1>9, <1>10, <1>11, <1>12, <1>13,
       <1>14, <1>15, <1>empty, <1>16, <1>17, <1>18, <1>19, <1>20, <1>21
    DEF Next, AdminStep, ReaderStep

\* An event in the log of the store that its process opened stays there.
LEMMA AuditedStays ==
    ASSUME TypeInv, Progress, Inodes, Drafts, [Next]_vars, NEW b \in Admins,
           opened[b] # NoAdmin, Audited(b)
    PROVE  Audited(b)'
  <1>1. PICK n \in Admins : n = opened[b]
    BY DEF TypeInv
  <1>2. opened'[b] = n
    BY <1>1, OpenedAction
  <1>3. PICK k \in DOMAIN stored[n].audit : stored[n].audit[k].by = b
    BY <1>1 DEF Audited
  <1>4. CASE stored'[n] = stored[n]
    BY <1>2, <1>3, <1>4 DEF Audited
  <1>5. ASSUME NEW a \in Admins, Appends(a, n) PROVE Audited(b)'
    <2>1. PICK m \in Nat : m = Len(stored[n].audit)
      BY <1>5, LogGrows
    <2>2. k \in DOMAIN stored'[n].audit /\ stored'[n].audit[k] = stored[n].audit[k]
      BY <1>3, <1>5, <2>1, LogGrows
    <2> QED
      BY <1>2, <1>3, <2>2 DEF Audited
  <1> QED
    BY <1>4, <1>5, LogAction

\* Every step keeps the log true.
LEMMA LogsStep ==
    ASSUME TypeInv, TypeInv', Progress, Inodes, Drafts, Logs, [Next]_vars
    PROVE  Logs'
  <1>1. ASSUME NEW b \in Admins, opened[b] # NoAdmin
        PROVE  /\ opened'[b] = opened[b] /\ command'[b] = command[b]
               /\ Committed(b) => Committed(b)'
    BY <1>1, OpenedAction, CommittedStays
  <1>2. ASSUME NEW n \in Admins, NEW b \in Admins, NEW k \in DOMAIN stored[n].audit,
               stored[n].audit[k].by = b
        PROVE  /\ opened'[b] = n /\ stored[n].audit[k].op = command'[b].op
               /\ Committed(b) /\ Committed(b)'
               /\ \A l \in DOMAIN stored[n].audit : stored[n].audit[l].by = b => l = k
    <2>1. /\ opened[b] = n /\ stored[n].audit[k].op = command[b].op /\ Committed(b)
          /\ \A l \in DOMAIN stored[n].audit : stored[n].audit[l].by = b => l = k
      BY <1>2 DEF Logs
    <2>2. opened[b] # NoAdmin
      BY <2>1, NoAdminAssumption
    <2> QED
      BY <1>1, <2>1, <2>2
  <1>3. ASSUME NEW n \in Admins, NEW b \in Admins, NEW k \in DOMAIN stored'[n].audit,
               stored'[n].audit[k].by = b
        PROVE  /\ opened'[b] = n /\ stored'[n].audit[k].op = command'[b].op /\ Committed(b)'
               /\ \A l \in DOMAIN stored'[n].audit : stored'[n].audit[l].by = b => l = k
    <2> DEFINE Goal ==
          /\ opened'[b] = n /\ stored'[n].audit[k].op = command'[b].op /\ Committed(b)'
          /\ \A l \in DOMAIN stored'[n].audit : stored'[n].audit[l].by = b => l = k
    <2>1. CASE stored'[n] = stored[n]
      BY <1>2, <1>3, <2>1
    <2>2. ASSUME NEW a \in Admins, Commit(a), opened[a] = n, Appends(a, n)
          PROVE  Goal
      <3>1. PICK m \in Nat : m = Len(stored[n].audit)
        BY <2>2, LogGrows
      <3>2. /\ DOMAIN stored[n].audit = 1..m /\ DOMAIN stored'[n].audit = 1..(m + 1)
            /\ \A l \in 1..m : stored'[n].audit[l] = stored[n].audit[l]
            /\ stored'[n].audit[m + 1].by = a /\ stored'[n].audit[m + 1].op = command[a].op
        BY <2>2, <3>1, LogGrows
      <3>3. ~Committed(a) /\ Committed(a)' /\ opened'[a] = n /\ command'[a] = command[a]
        <4>1. pc[a] = "committing" /\ pc'[a] = "committed" /\ opened'[a] = n /\ command'[a] = command[a]
          BY <2>2 DEF Commit, Goes, TypeInv
        <4>2. result[a] = "none"
          BY <4>1 DEF Progress, Places
        <4> QED
          BY <4>1, <4>2 DEF Committed
      <3>4. \A l \in 1..m : stored'[n].audit[l].by # a
        <4> SUFFICES ASSUME NEW l \in 1..m, stored[n].audit[l].by = a PROVE FALSE
          BY <3>2
        <4> QED
          BY <1>2, <3>2, <3>3
      <3>5. CASE k = m + 1
        <4>1. b = a
          BY <1>3, <3>2, <3>5
        <4>2. \A l \in 1..(m + 1) : l \in 1..m \/ l = m + 1
          OBVIOUS
        <4> QED
          BY <3>2, <3>3, <3>4, <3>5, <4>1, <4>2
      <3>6. CASE k \in 1..m
        <4>1. stored[n].audit[k].by = b /\ b # a
          BY <1>3, <3>2, <3>4, <3>6
        <4>2. /\ opened'[b] = n /\ stored[n].audit[k].op = command'[b].op /\ Committed(b)'
              /\ \A l \in 1..m : stored[n].audit[l].by = b => l = k
          BY <1>2, <3>2, <3>6, <4>1
        <4>3. \A l \in 1..(m + 1) : l \in 1..m \/ l = m + 1
          OBVIOUS
        <4> QED
          BY <3>2, <3>6, <4>1, <4>2, <4>3
      <3>7. k \in 1..m \/ k = m + 1
        BY <1>3, <3>1, <3>2
      <3> QED
        BY <3>5, <3>6, <3>7
    <2> QED
      BY <2>1, <2>2, LogAction
  <1>4. ASSUME NEW a \in Admins, pc'[a] = "committed" \/ result'[a] = "ok",
               (Issues(a) \/ command[a].op = "init")'
        PROVE  Audited(a)'
    <2>1. pc[a] = "committed" \/ result[a] = "ok" \/ Commit(a)
      BY <1>4, CommittedStays
    <2>2. opened[a] # NoAdmin
      BY <2>1 DEF Commit, Progress, Places
    <2>3. PICK n \in Admins : n = opened[a]
      BY <2>2 DEF TypeInv
    <2>4. opened'[a] = n /\ command'[a] = command[a]
      BY <1>1, <2>2, <2>3
    <2>5. Issues(a) \/ command[a].op = "init"
      BY <1>4, <2>4 DEF Issues
    <2>6. CASE Commit(a)
      <3>1. Appends(a, n)
        BY <2>3, <2>5, <2>6, CommitWrites DEF Issues, IssueKinds
      <3>2. PICK m \in Nat : m = Len(stored[n].audit)
        BY <3>1, LogGrows
      <3>3. m + 1 \in DOMAIN stored'[n].audit /\ stored'[n].audit[m + 1].by = a
        BY <3>1, <3>2, LogGrows
      <3> QED
        BY <2>4, <3>3 DEF Audited
    <2>7. CASE pc[a] = "committed" \/ result[a] = "ok"
      BY <2>2, <2>5, <2>7, AuditedStays DEF Logs
    <2> QED
      BY <2>1, <2>6, <2>7
  <1> QED
    BY <1>3, <1>4 DEF Logs

-----------------------------------------------------------------------------
(* Outputs *)

\* No file is there at first.
LEMMA OutputsInit == Init => Outputs
  <1> SUFFICES ASSUME Init PROVE Outputs
    OBVIOUS
  <1>1. \A n \in Admins : DOMAIN stored[n].audit = {}
    BY DEF Init, EmptyStore
  <1>2. \A a \in Admins : pc[a] = "new"
    BY DEF Init
  <1>3. \A f \in Files : files[f] = NoFile /\ files[f].of = NoAdmin
    BY DEF Init, NoFile
  <1> QED
    BY <1>1, <1>2, <1>3, NoAdminAssumption DEF Outputs

\* An issue keeps its command once it has one.
LEMMA IssuesStay ==
    ASSUME TypeInv, Progress, Inodes, [Next]_vars, NEW b \in Admins, pc[b] # "new"
    PROVE  command'[b] = command[b] /\ (Issues(b)' <=> Issues(b)) /\ Output(b)' = Output(b)
  <1>1. command'[b] = command[b]
    BY OpenedAction DEF Progress, Places
  <1> QED
    BY <1>1 DEF Issues, Output

\* An issue has an output.
LEMMA OutputType ==
    ASSUME TypeInv, Progress, NEW b \in Admins, Issues(b)
    PROVE  pc[b] # "new" /\ Output(b) \in Files
  <1>1. pc[b] # "new"
    BY HasCommand DEF Issues, IssueKinds
  <1> QED
    BY <1>1, HasCommand, CommandKinds DEF Output

\* Each output file is written by the issue that created it.
OwnFile(b) ==
    /\ pc[b] \in {"writing", "unwritten"} => files[Output(b)] = [of |-> b, whole |-> FALSE]
    /\ pc[b] \in {"ready", "committing", "uncommitted", "committed"} =>
         files[Output(b)] = [of |-> b, whole |-> TRUE]
HeldFile(f, b) == files[f].of = b =>
    /\ Issues(b) /\ Output(b) = f /\ pc[b] \notin {"open", "drafted"} /\ opened[b] # NoAdmin
    /\ result[b] = "failed" => Audited(b)

\* A command that is writing its output is the one that made the file.
LEMMA OwnOutput ==
    ASSUME TypeInv, Progress, Outputs, NEW a \in Admins,
           pc[a] \in {"writing", "unwritten", "uncommitted"}
    PROVE  /\ Issues(a) /\ pc[a] # "new" /\ Output(a) \in Files /\ files[Output(a)].of = a
           /\ pc[a] # "uncommitted" => files[Output(a)] = [of |-> a, whole |-> FALSE]
  <1>1. Issues(a)
    BY DEF Progress, Places
  <1>2. files[Output(a)] = [of |-> a, whole |-> FALSE] \/ files[Output(a)] = [of |-> a, whole |-> TRUE]
    BY <1>1 DEF Outputs
  <1>3. files[Output(a)].of = a
    BY <1>2
  <1>4. pc[a] # "uncommitted" => files[Output(a)] = [of |-> a, whole |-> FALSE]
    BY <1>1 DEF Outputs
  <1> QED
    BY <1>1, <1>3, <1>4, OutputType

\* Every step keeps what a command's own output file is.
LEMMA OwnFileStep ==
    ASSUME TypeInv, Progress, Inodes, Outputs, [Next]_vars, NEW b \in Admins, Issues(b)'
    PROVE  OwnFile(b)'
  <1>f. PICK f : f = Output(b)
    OBVIOUS
  <1> DEFINE Goal ==
        /\ pc'[b] \in {"writing", "unwritten"} => pc[b] # "new" /\ files'[f] = [of |-> b, whole |-> FALSE]
        /\ pc'[b] \in {"ready", "committing", "uncommitted", "committed"} =>
             pc[b] # "new" /\ (Issues(b) => files'[f] = [of |-> b, whole |-> TRUE])
  <1>kept. pc[b] # "new" => Issues(b) /\ Output(b)' = f /\ f \in Files
    BY <1>f, IssuesStay, OutputType
  <1>own. /\ pc[b] \in {"writing", "unwritten"} => files[f] = [of |-> b, whole |-> FALSE]
          /\ pc[b] \in {"ready", "committing", "uncommitted", "committed"} =>
               (Issues(b) => files[f] = [of |-> b, whole |-> TRUE])
    BY <1>f, <1>kept DEF Outputs
  <1> USE DEF TypeInv, Goes, Ends, adminVars, readerVars
  <1>1. ASSUME NEW a \in Admins, NEW c \in Commands, Open(a, c) PROVE Goal
    BY <1>1, <1>own DEF Open
  <1>2. ASSUME NEW a \in Admins, NEW c \in Commands, CreateDatabase(a, c) PROVE Goal
    BY <1>2, <1>own DEF CreateDatabase
  <1>3. ASSUME NEW a \in Admins, Begin(a) PROVE Goal
    BY <1>3, <1>own DEF Begin
  <1>4. ASSUME NEW a \in Admins, BeginFails(a) PROVE Goal
    BY <1>4, <1>own DEF BeginFails
  <1>5. ASSUME NEW a \in Admins, StartCommit(a) PROVE Goal
    BY <1>5, <1>own DEF StartCommit
  <1>6. ASSUME NEW a \in Admins, Commit(a) PROVE Goal
    BY <1>6, <1>own DEF Commit
  <1>7. ASSUME NEW a \in Admins, CommitFails(a) PROVE Goal
    BY <1>7, <1>own DEF CommitFails
  <1>8. ASSUME NEW a \in Admins, Report(a) PROVE Goal
    BY <1>8, <1>own DEF Report
  <1>9. ASSUME NEW a \in Admins, Crash(a) PROVE Goal
    BY <1>9, <1>own DEF Crash
  <1>10. ASSUME NEW a \in Admins, CreateOutput(a) PROVE Goal
    <2>1. files[Output(a)] = NoFile /\ Output(a) \in Files
      BY <1>10, OutputType DEF CreateOutput
    <2>2. NoFile # [of |-> b, whole |-> FALSE] /\ NoFile # [of |-> b, whole |-> TRUE]
      BY NoAdminAssumption DEF NoFile
    <2>3. CASE a = b
      <3>1. files'[f] = [of |-> b, whole |-> FALSE]
        BY <1>10, <1>f, <2>1, <2>3 DEF CreateOutput
      <3> QED
        BY <1>10, <2>3, <3>1 DEF CreateOutput
    <2>4. CASE a # b
      <3>1. pc'[b] = pc[b] /\ (f # Output(a) => files'[f] = files[f])
        BY <1>10, <2>1, <2>4, <1>f, <1>kept DEF CreateOutput
      <3> QED
        BY <1>own, <1>kept, <2>1, <2>2, <3>1
    <2> QED
      BY <2>3, <2>4
  <1>11. ASSUME NEW a \in Admins, OutputRefused(a) PROVE Goal
    BY <1>11, <1>own DEF OutputRefused
  <1>12. ASSUME NEW a \in Admins, WriteOutput(a) PROVE Goal
    <2>1. Output(a) \in Files /\ files[Output(a)] = [of |-> a, whole |-> FALSE]
      BY <1>12, OwnOutput DEF WriteOutput
    <2>2. files'[Output(a)] = [of |-> a, whole |-> TRUE]
      BY <1>12, <2>1 DEF WriteOutput
    <2>4. CASE a = b
      BY <1>12, <1>f, <2>2, <2>4 DEF WriteOutput
    <2>5. CASE a # b
      <3>1. pc'[b] = pc[b] /\ (f # Output(a) => files'[f] = files[f])
        BY <1>12, <1>f, <1>kept, <2>1, <2>5 DEF WriteOutput
      <3>2. files[Output(a)] # [of |-> b, whole |-> FALSE] /\ files[Output(a)] # [of |-> b, whole |-> TRUE]
        BY <2>1, <2>5
      <3> QED
        BY <1>own, <1>kept, <3>1, <3>2
    <2> QED
      BY <2>4, <2>5
  <1>13. ASSUME NEW a \in Admins, WriteFails(a) PROVE Goal
    BY <1>13, <1>own DEF WriteFails
  <1>14. ASSUME NEW a \in Admins, RemoveOutput(a) PROVE Goal
    <2>1. Output(a) \in Files /\ files[Output(a)].of = a
      BY <1>14, OwnOutput DEF RemoveOutput
    <2>4. CASE a = b
      BY <1>14, <2>4 DEF RemoveOutput
    <2>5. CASE a # b
      <3>1. pc'[b] = pc[b] /\ (f # Output(a) => files'[f] = files[f])
        BY <1>14, <1>f, <1>kept, <2>1, <2>5 DEF RemoveOutput
      <3>2. files[Output(a)] # [of |-> b, whole |-> FALSE] /\ files[Output(a)] # [of |-> b, whole |-> TRUE]
        BY <2>1, <2>5
      <3> QED
        BY <1>own, <1>kept, <3>1, <3>2
    <2> QED
      BY <2>4, <2>5
  <1>15. ASSUME NEW a \in Admins, DraftSchema(a) PROVE Goal
    BY <1>15, <1>own DEF DraftSchema
  <1>empty. ASSUME NEW a \in Admins, CreateFails(a) PROVE Goal
    BY <1>empty, <1>own DEF CreateFails
  <1>16. ASSUME NEW a \in Admins, InitFails(a) PROVE Goal
    BY <1>16, <1>own DEF InitFails
  <1>17. ASSUME NEW a \in Admins, RemoveDatabase(a) PROVE Goal
    BY <1>17, <1>own DEF RemoveDatabase
  <1>18. ASSUME NEW r \in Readers, BeginRead(r) PROVE Goal
    BY <1>18, <1>own DEF BeginRead
  <1>19. ASSUME NEW r \in Readers, ReadRow(r) PROVE Goal
    BY <1>19, <1>own DEF ReadRow
  <1>20. ASSUME NEW r \in Readers, EndRead(r) PROVE Goal
    BY <1>20, <1>own DEF EndRead
  <1>21. ASSUME UNCHANGED vars PROVE Goal
    BY <1>21, <1>own DEF vars
  <1>22. Goal
    BY <1>1, <1>2, <1>3, <1>4, <1>5, <1>6, <1>7, <1>8, <1>9, <1>10, <1>11, <1>12, <1>13,
       <1>14, <1>15, <1>empty, <1>16, <1>17, <1>18, <1>19, <1>20, <1>21
    DEF Next, AdminStep, ReaderStep
  <1> QED
    BY <1>22, <1>kept DEF OwnFile

\* Every step keeps that a file belongs to the command that made it.
LEMMA HeldFileStep ==
    ASSUME TypeInv, Progress, Inodes, Drafts, Logs, Outputs, [Next]_vars,
           NEW f \in Files, NEW b \in Admins
    PROVE  HeldFile(f, b)' /\ (files[f].of = NoAdmin => files[f] = NoFile)'
  <1> DEFINE Goal == HeldFile(f, b)' /\ (files[f].of = NoAdmin => files[f] = NoFile)'
  <1>held. HeldFile(f, b) /\ (files[f].of = NoAdmin => files[f] = NoFile)
    BY DEF Outputs, HeldFile
  <1>own. files[f].of = b => /\ Issues(b)' /\ Output(b)' = f /\ pc[b] # "new"
                             /\ pc[b] \notin {"open", "drafted"}
                             /\ opened[b] # NoAdmin /\ opened'[b] # NoAdmin
    BY <1>held, IssuesStay, OutputType, OpenedAction DEF HeldFile
  <1>said. ASSUME files[f].of = b, pc[b] = "committed" \/ result[b] = "failed" PROVE Audited(b)'
    <2>1. Audited(b) /\ Issues(b)
      BY <1>held, <1>said DEF HeldFile, Logs
    <2> QED
      BY <1>own, <1>said, <2>1, AuditedStays
  <1>kept. files[f].of = b => /\ Issues(b)' /\ Output(b)' = f /\ pc[b] # "new"
                              /\ pc[b] \notin {"open", "drafted"} /\ opened'[b] # NoAdmin
                              /\ pc[b] = "committed" \/ result[b] = "failed" => Audited(b)'
    BY <1>own, <1>said
  <1> USE DEF TypeInv, Progress, Places, Goes, Ends, adminVars, readerVars, HeldFile
  <1>1. ASSUME NEW a \in Admins, NEW c \in Commands, Open(a, c) PROVE Goal
    BY <1>1, <1>held, <1>kept DEF Open
  <1>2. ASSUME NEW a \in Admins, NEW c \in Commands, CreateDatabase(a, c) PROVE Goal
    BY <1>2, <1>held, <1>kept DEF CreateDatabase
  <1>3. ASSUME NEW a \in Admins, Begin(a) PROVE Goal
    BY <1>3, <1>held, <1>kept DEF Begin
  <1>4. ASSUME NEW a \in Admins, BeginFails(a) PROVE Goal
    BY <1>4, <1>held, <1>kept DEF BeginFails
  <1>5. ASSUME NEW a \in Admins, StartCommit(a) PROVE Goal
    BY <1>5, <1>held, <1>kept DEF StartCommit
  <1>6. ASSUME NEW a \in Admins, Commit(a) PROVE Goal
    BY <1>6, <1>held, <1>kept DEF Commit
  <1>7. ASSUME NEW a \in Admins, CommitFails(a) PROVE Goal
    <2>1. files[f].of = b /\ a = b => Issues(a)
      BY <1>held
    <2>2. Issues(a) => command[a].op # "revoke" /\ command[a].op # "init"
      BY DEF Issues, IssueKinds
    <2> QED
      BY <1>7, <1>held, <1>kept, <2>1, <2>2 DEF CommitFails
  <1>8. ASSUME NEW a \in Admins, Report(a) PROVE Goal
    BY <1>8, <1>held, <1>kept DEF Report
  <1>9. ASSUME NEW a \in Admins, Crash(a) PROVE Goal
    BY <1>9, <1>held, <1>kept DEF Crash
  <1>10. ASSUME NEW a \in Admins, CreateOutput(a) PROVE Goal
    <2>1. Issues(a) /\ pc[a] # "new" /\ Output(a) \in Files
      BY <1>10, OutputType DEF CreateOutput
    <2>2. /\ Issues(a)' /\ Output(a)' = Output(a) /\ result'[a] # "failed"
          /\ opened'[a] # NoAdmin
      BY <1>10, <2>1, IssuesStay DEF CreateOutput
    <2>3. CASE f = Output(a)
      <3>1. files'[f] = [of |-> a, whole |-> FALSE]
        BY <1>10, <2>1, <2>3 DEF CreateOutput
      <3>2. files'[f].of = a
        BY <3>1
      <3> QED
        BY <1>10, <2>1, <2>2, <2>3, <3>1, <3>2, NoAdminAssumption DEF CreateOutput
    <2>4. CASE f # Output(a)
      <3>1. files'[f] = files[f]
        BY <1>10, <2>1, <2>4 DEF CreateOutput
      <3> QED
        BY <1>10, <1>held, <1>kept, <3>1 DEF CreateOutput
    <2> QED
      BY <2>3, <2>4
  <1>11. ASSUME NEW a \in Admins, OutputRefused(a) PROVE Goal
    BY <1>11, <1>held, <1>kept DEF OutputRefused
  <1>12. ASSUME NEW a \in Admins, WriteOutput(a) PROVE Goal
    <2>1. Issues(a) /\ pc[a] # "new" /\ Output(a) \in Files /\ files[Output(a)].of = a
      BY <1>12, OwnOutput DEF WriteOutput
    <2>2. files'[f].of = files[f].of
      BY <1>12, <2>1 DEF WriteOutput
    <2>3. files'[f] = files[f] \/ files[f].of = a
      BY <1>12, <2>1, <2>2 DEF WriteOutput
    <2> QED
      BY <1>12, <1>held, <1>kept, <2>2, <2>3, NoAdminAssumption DEF WriteOutput
  <1>13. ASSUME NEW a \in Admins, WriteFails(a) PROVE Goal
    BY <1>13, <1>held, <1>kept DEF WriteFails
  <1>14. ASSUME NEW a \in Admins, RemoveOutput(a) PROVE Goal
    <2>1. Issues(a) /\ pc[a] # "new" /\ Output(a) \in Files
      BY <1>14, OwnOutput DEF RemoveOutput
    <2>3. CASE f = Output(a)
      <3>1. files'[f] = NoFile /\ files'[f].of = NoAdmin
        BY <1>14, <2>1, <2>3 DEF RemoveOutput, NoFile
      <3> QED
        BY <3>1, NoAdminAssumption
    <2>4. CASE f # Output(a)
      <3>1. files'[f] = files[f]
        BY <1>14, <2>1, <2>4 DEF RemoveOutput
      <3>2. files[f].of = b => b # a
        BY <1>held, <2>4
      <3> QED
        BY <1>14, <1>held, <1>kept, <3>1, <3>2 DEF RemoveOutput
    <2> QED
      BY <2>3, <2>4
  <1>15. ASSUME NEW a \in Admins, DraftSchema(a) PROVE Goal
    <2>1. files[f].of # a \/ a # b
      BY <1>15, <1>kept DEF DraftSchema, Issues, IssueKinds, Outputs
    <2> QED
      BY <1>15, <1>held, <1>kept, <2>1 DEF DraftSchema
  <1>empty. ASSUME NEW a \in Admins, CreateFails(a) PROVE Goal
    <2>1. files[f].of # a \/ a # b
      BY <1>empty, <1>kept DEF CreateFails, Issues, IssueKinds, Outputs
    <2> QED
      BY <1>empty, <1>held, <1>kept, <2>1 DEF CreateFails
  <1>16. ASSUME NEW a \in Admins, InitFails(a) PROVE Goal
    BY <1>16, <1>held, <1>kept DEF InitFails
  <1>17. ASSUME NEW a \in Admins, RemoveDatabase(a) PROVE Goal
    <2>1. files[f].of # a \/ a # b
      BY <1>17, <1>kept DEF RemoveDatabase, Issues, IssueKinds, Outputs
    <2> QED
      BY <1>17, <1>held, <1>kept, <2>1 DEF RemoveDatabase
  <1>18. ASSUME NEW r \in Readers, BeginRead(r) PROVE Goal
    BY <1>18, <1>held, <1>kept DEF BeginRead
  <1>19. ASSUME NEW r \in Readers, ReadRow(r) PROVE Goal
    BY <1>19, <1>held, <1>kept DEF ReadRow
  <1>20. ASSUME NEW r \in Readers, EndRead(r) PROVE Goal
    BY <1>20, <1>held, <1>kept DEF EndRead
  <1>21. CASE UNCHANGED vars
    BY <1>21, <1>held, <1>kept DEF vars
  <1> QED
    BY <1>1, <1>2, <1>3, <1>4, <1>5, <1>6, <1>7, <1>8, <1>9, <1>10, <1>11, <1>12, <1>13,
       <1>14, <1>15, <1>empty, <1>16, <1>17, <1>18, <1>19, <1>20, <1>21
    DEF Next, AdminStep, ReaderStep

\* A file that a committed issue delivered is left alone.
LEMMA FileStays ==
    ASSUME TypeInv, Progress, Outputs, [Next]_vars, NEW f \in Files, NEW b \in Admins,
           files[f] = [of |-> b, whole |-> TRUE], Committed(b)
    PROVE  files'[f] = [of |-> b, whole |-> TRUE]
  <1>done. pc[b] \notin {"drafted", "writing", "unwritten", "ready", "uncommitted"}
    BY DEF Committed, Progress, Places
  <1>of. files[f].of = b
    OBVIOUS
  <1> USE DEF TypeInv
  <1>1. ASSUME NEW a \in Admins, NEW c \in Commands, Open(a, c)
         PROVE  files'[f] = [of |-> b, whole |-> TRUE]
    BY <1>1 DEF Open
  <1>2. ASSUME NEW a \in Admins, NEW c \in Commands, CreateDatabase(a, c)
         PROVE  files'[f] = [of |-> b, whole |-> TRUE]
    BY <1>2 DEF CreateDatabase
  <1>3. ASSUME NEW a \in Admins, Begin(a) PROVE files'[f] = [of |-> b, whole |-> TRUE]
    BY <1>3 DEF Begin
  <1>4. ASSUME NEW a \in Admins, BeginFails(a) PROVE files'[f] = [of |-> b, whole |-> TRUE]
    BY <1>4 DEF BeginFails
  <1>5. ASSUME NEW a \in Admins, StartCommit(a) PROVE files'[f] = [of |-> b, whole |-> TRUE]
    BY <1>5 DEF StartCommit
  <1>6. ASSUME NEW a \in Admins, Commit(a) PROVE files'[f] = [of |-> b, whole |-> TRUE]
    BY <1>6 DEF Commit
  <1>7. ASSUME NEW a \in Admins, CommitFails(a) PROVE files'[f] = [of |-> b, whole |-> TRUE]
    BY <1>7 DEF CommitFails
  <1>8. ASSUME NEW a \in Admins, Report(a) PROVE files'[f] = [of |-> b, whole |-> TRUE]
    BY <1>8 DEF Report
  <1>9. ASSUME NEW a \in Admins, Crash(a) PROVE files'[f] = [of |-> b, whole |-> TRUE]
    BY <1>9 DEF Crash
  <1>10. ASSUME NEW a \in Admins, CreateOutput(a) PROVE files'[f] = [of |-> b, whole |-> TRUE]
    <2>1. files[Output(a)] = NoFile /\ NoFile # files[f]
      BY <1>10, NoAdminAssumption DEF CreateOutput, NoFile
    <2> QED
      BY <1>10, <2>1 DEF CreateOutput
  <1>11. ASSUME NEW a \in Admins, OutputRefused(a) PROVE files'[f] = [of |-> b, whole |-> TRUE]
    BY <1>11 DEF OutputRefused
  <1>12. ASSUME NEW a \in Admins, WriteOutput(a) PROVE files'[f] = [of |-> b, whole |-> TRUE]
    <2>1. pc[a] \in {"writing", "unwritten", "uncommitted"}
      BY <1>12 DEF WriteOutput
    <2>2. files[Output(a)].of = a /\ a # b
      BY <1>done, <2>1, OwnOutput
    <2>3. Output(a) # f
      BY <1>of, <2>2
    <2> QED
      BY <1>12, <2>3 DEF WriteOutput
  <1>13. ASSUME NEW a \in Admins, WriteFails(a) PROVE files'[f] = [of |-> b, whole |-> TRUE]
    BY <1>13 DEF WriteFails
  <1>14. ASSUME NEW a \in Admins, RemoveOutput(a) PROVE files'[f] = [of |-> b, whole |-> TRUE]
    <2>1. pc[a] \in {"writing", "unwritten", "uncommitted"}
      BY <1>14 DEF RemoveOutput
    <2>2. files[Output(a)].of = a /\ a # b
      BY <1>done, <2>1, OwnOutput
    <2>3. Output(a) # f
      BY <1>of, <2>2
    <2> QED
      BY <1>14, <2>3 DEF RemoveOutput
  <1>15. ASSUME NEW a \in Admins, DraftSchema(a) PROVE files'[f] = [of |-> b, whole |-> TRUE]
    BY <1>15 DEF DraftSchema
  <1>empty. ASSUME NEW a \in Admins, CreateFails(a) PROVE files'[f] = [of |-> b, whole |-> TRUE]
    BY <1>empty DEF CreateFails
  <1>16. ASSUME NEW a \in Admins, InitFails(a) PROVE files'[f] = [of |-> b, whole |-> TRUE]
    BY <1>16 DEF InitFails
  <1>17. ASSUME NEW a \in Admins, RemoveDatabase(a) PROVE files'[f] = [of |-> b, whole |-> TRUE]
    BY <1>17 DEF RemoveDatabase
  <1>18. ASSUME NEW r \in Readers, BeginRead(r) PROVE files'[f] = [of |-> b, whole |-> TRUE]
    BY <1>18 DEF BeginRead
  <1>19. ASSUME NEW r \in Readers, ReadRow(r) PROVE files'[f] = [of |-> b, whole |-> TRUE]
    BY <1>19 DEF ReadRow
  <1>20. ASSUME NEW r \in Readers, EndRead(r) PROVE files'[f] = [of |-> b, whole |-> TRUE]
    BY <1>20 DEF EndRead
  <1>21. CASE UNCHANGED vars
    BY <1>21 DEF vars
  <1> QED
    BY <1>1, <1>2, <1>3, <1>4, <1>5, <1>6, <1>7, <1>8, <1>9, <1>10, <1>11, <1>12, <1>13,
       <1>14, <1>15, <1>empty, <1>16, <1>17, <1>18, <1>19, <1>20, <1>21
    DEF Next, AdminStep, ReaderStep

\* Every step keeps the outputs true.
LEMMA OutputsStep ==
    ASSUME TypeInv, TypeInv', Progress, Inodes, Drafts, Logs, Outputs, [Next]_vars
    PROVE  Outputs'
  <1>1. ASSUME NEW n \in Admins, NEW b \in Admins, NEW k \in DOMAIN stored'[n].audit,
               stored'[n].audit[k].by = b, stored'[n].audit[k].op \in IssueKinds
        PROVE  files'[Output(b)'] = [of |-> b, whole |-> TRUE]
    <2> DEFINE Goal == files'[Output(b)'] = [of |-> b, whole |-> TRUE]
    <2>1. ASSUME k \in DOMAIN stored[n].audit, stored[n].audit[k] = stored'[n].audit[k]
          PROVE  Goal
      <3>1. Committed(b) /\ Issues(b) /\ files[Output(b)] = [of |-> b, whole |-> TRUE]
        BY <1>1, <2>1 DEF Logs, Outputs, Issues
      <3>2. Output(b) \in Files /\ Output(b)' = Output(b)
        BY <3>1, OutputType, IssuesStay
      <3>3. files'[Output(b)] = [of |-> b, whole |-> TRUE]
        BY <3>1, <3>2, FileStays
      <3> QED
        BY <3>2, <3>3
    <2>2. CASE stored'[n] = stored[n]
      BY <1>1, <2>1, <2>2
    <2>3. ASSUME NEW a \in Admins, Commit(a), opened[a] = n, Appends(a, n)
          PROVE  Goal
      <3>1. PICK m \in Nat : m = Len(stored[n].audit)
        BY <2>3, LogGrows
      <3>2. /\ DOMAIN stored[n].audit = 1..m /\ DOMAIN stored'[n].audit = 1..(m + 1)
            /\ \A l \in 1..m : stored'[n].audit[l] = stored[n].audit[l]
            /\ stored'[n].audit[m + 1].by = a /\ stored'[n].audit[m + 1].op = command[a].op
        BY <2>3, <3>1, LogGrows
      <3>3. CASE k = m + 1
        <4>1. b = a /\ Issues(a)
          BY <1>1, <3>2, <3>3 DEF Issues
        <4>2. pc[a] = "committing" /\ files' = files
          BY <2>3 DEF Commit
        <4>3. files[Output(a)] = [of |-> a, whole |-> TRUE]
          BY <4>1, <4>2 DEF Outputs
        <4>4. Output(a)' = Output(a)
          BY <4>2, IssuesStay
        <4> QED
          BY <4>1, <4>2, <4>3, <4>4
      <3>4. CASE k \in 1..m
        BY <2>1, <3>2, <3>4
      <3> QED
        BY <1>1, <3>1, <3>2, <3>3, <3>4
    <2> QED
      BY <2>2, <2>3, LogAction
  <1>2. ASSUME NEW b \in Admins, Issues(b)' PROVE OwnFile(b)'
    BY <1>2, OwnFileStep
  <1>3. ASSUME NEW f \in Files, NEW b \in Admins PROVE HeldFile(f, b)'
    BY HeldFileStep
  <1>4. ASSUME NEW f \in Files PROVE (files[f].of = NoAdmin => files[f] = NoFile)'
    <2>1. CASE files[f] # NoFile
      <3>1. PICK b \in Admins : b = files[f].of
        BY <2>1 DEF Outputs, TypeInv
      <3> QED
        BY HeldFileStep
    <2>2. ASSUME NEW b \in Admins PROVE (files[f].of = NoAdmin => files[f] = NoFile)'
      BY HeldFileStep
    <2>3. CASE Admins = {}
      BY <2>3 DEF Next, vars, TypeInv, ReaderStep, BeginRead, ReadRow, EndRead, Outputs
    <2> QED
      BY <2>2, <2>3
  <1> QED
    BY <1>1, <1>2, <1>3, <1>4 DEF Outputs, OwnFile, HeldFile

-----------------------------------------------------------------------------
(* Snapshots *)

\* Every step keeps what a reader has read the rows of one store: a commit waits for
\* the readers inside.
LEMMA SnapshotStep ==
    ASSUME TypeInv, Progress, Inodes, Drafts, SnapshotIsCommitted, [Next]_vars
    PROVE  SnapshotIsCommitted'
  <1> SUFFICES ASSUME NEW s \in Readers, rpc'[s] = "reading", NEW i \in Ids, i \notin unread'[s]
               PROVE  view'[s][i] = stored'[ropened'[s]].rows[i]
    BY DEF SnapshotIsCommitted
  <1> DEFINE Goal == view'[s][i] = stored'[ropened'[s]].rows[i]
  <1>old. rpc[s] = "reading" /\ i \notin unread[s] => view[s][i] = stored[ropened[s]].rows[i]
    BY DEF SnapshotIsCommitted
  <1> USE DEF TypeInv, Goes, Ends, readerVars
  <1>1. ASSUME NEW a \in Admins, NEW c \in Commands, Open(a, c) PROVE Goal
    BY <1>1, <1>old DEF Open
  <1>2. ASSUME NEW a \in Admins, NEW c \in Commands, CreateDatabase(a, c) PROVE Goal
    BY <1>2, <1>old DEF CreateDatabase
  <1>3. ASSUME NEW a \in Admins, Begin(a) PROVE Goal
    BY <1>3, <1>old DEF Begin
  <1>4. ASSUME NEW a \in Admins, BeginFails(a) PROVE Goal
    BY <1>4, <1>old DEF BeginFails
  <1>5. ASSUME NEW a \in Admins, StartCommit(a) PROVE Goal
    BY <1>5, <1>old DEF StartCommit
  <1>6. ASSUME NEW a \in Admins, Commit(a) PROVE Goal
    <2>1. rpc' = rpc /\ ropened' = ropened /\ view' = view /\ unread' = unread /\ Reading(opened[a]) = {}
      BY <1>6 DEF Commit
    <2>2. s \notin Reading(opened[a])
      BY <2>1
    <2>3. ropened[s] # opened[a] /\ ropened[s] \in Admins
      BY <2>1, <2>2 DEF Reading, Progress
    <2>4. stored'[ropened[s]] = stored[ropened[s]]
      BY <1>6, <2>3, CommitDraft
    <2> QED
      BY <1>old, <2>1, <2>4
  <1>7. ASSUME NEW a \in Admins, CommitFails(a) PROVE Goal
    BY <1>7, <1>old DEF CommitFails
  <1>8. ASSUME NEW a \in Admins, Report(a) PROVE Goal
    BY <1>8, <1>old DEF Report
  <1>9. ASSUME NEW a \in Admins, Crash(a) PROVE Goal
    BY <1>9, <1>old DEF Crash
  <1>10. ASSUME NEW a \in Admins, CreateOutput(a) PROVE Goal
    BY <1>10, <1>old DEF CreateOutput
  <1>11. ASSUME NEW a \in Admins, OutputRefused(a) PROVE Goal
    BY <1>11, <1>old DEF OutputRefused
  <1>12. ASSUME NEW a \in Admins, WriteOutput(a) PROVE Goal
    BY <1>12, <1>old DEF WriteOutput
  <1>13. ASSUME NEW a \in Admins, WriteFails(a) PROVE Goal
    BY <1>13, <1>old DEF WriteFails
  <1>14. ASSUME NEW a \in Admins, RemoveOutput(a) PROVE Goal
    BY <1>14, <1>old DEF RemoveOutput
  <1>15. ASSUME NEW a \in Admins, DraftSchema(a) PROVE Goal
    BY <1>15, <1>old DEF DraftSchema
  <1>empty. ASSUME NEW a \in Admins, CreateFails(a) PROVE Goal
    BY <1>empty, <1>old DEF CreateFails
  <1>16. ASSUME NEW a \in Admins, InitFails(a) PROVE Goal
    BY <1>16, <1>old DEF InitFails
  <1>17. ASSUME NEW a \in Admins, RemoveDatabase(a) PROVE Goal
    BY <1>17, <1>old DEF RemoveDatabase
  <1>18. ASSUME NEW r \in Readers, BeginRead(r) PROVE Goal
    BY <1>18, <1>old DEF BeginRead
  <1>19. ASSUME NEW r \in Readers, ReadRow(r) PROVE Goal
    <2>1. PICK j \in unread[r] :
            /\ view' = [view EXCEPT ![r] = [@ EXCEPT ![j] = stored[ropened[r]].rows[j]]]
            /\ unread' = [unread EXCEPT ![r] = @ \ {j}]
            /\ stored' = stored /\ ropened' = ropened /\ rpc' = rpc
      BY <1>19 DEF ReadRow
    <2>2. CASE r # s
      BY <1>old, <2>1, <2>2
    <2>3. CASE r = s
      <3>1. view[s] \in Rows /\ j \in Ids
        BY <2>1, <2>3
      <3>2. view'[s] = [view[s] EXCEPT ![j] = stored[ropened[s]].rows[j]]
        BY <2>1, <2>3
      <3>3. unread'[s] = unread[s] \ {j}
        BY <2>1, <2>3
      <3>4. CASE i = j
        BY <2>1, <3>1, <3>2, <3>4 DEF Rows
      <3>5. CASE i # j
        <4>1. view'[s][i] = view[s][i]
          BY <3>1, <3>2, <3>5 DEF Rows
        <4> QED
          BY <1>old, <2>1, <3>3, <3>5, <4>1
      <3> QED
        BY <3>4, <3>5
    <2> QED
      BY <2>2, <2>3
  <1>20. ASSUME NEW r \in Readers, EndRead(r) PROVE Goal
    BY <1>20, <1>old DEF EndRead
  <1>21. CASE UNCHANGED vars
    BY <1>21, <1>old DEF vars
  <1> QED
    BY <1>1, <1>2, <1>3, <1>4, <1>5, <1>6, <1>7, <1>8, <1>9, <1>10, <1>11, <1>12, <1>13,
       <1>14, <1>15, <1>empty, <1>16, <1>17, <1>18, <1>19, <1>20, <1>21
    DEF Next, AdminStep, ReaderStep

-----------------------------------------------------------------------------
(* The registrations *)

\* An event appended to a log is the latest of its kinds about its tether.
LEMMA LatestAppended ==
    ASSUME NEW log \in Seq(Event), NEW e \in Event, NEW i, NEW kinds, e.id = i, e.op \in kinds,
           NEW longer, longer = Append(log, e), NEW k \in DOMAIN longer
    PROVE  Latest(longer, i, kinds, k) <=> k = Len(log) + 1
  <1>1. PICK m \in Nat : m = Len(log)
    OBVIOUS
  <1>2. /\ DOMAIN longer = 1..(m + 1) /\ longer[m + 1] = e
    BY <1>1
  <1> QED
    BY <1>1, <1>2 DEF Latest

\* An event of other kinds, or about another tether, changes no latest one.
LEMMA LatestGrows ==
    ASSUME NEW log \in Seq(Event), NEW e \in Event, NEW longer, NEW i, NEW kinds,
           longer = Append(log, e)
    PROVE  /\ e.id # i \/ e.op \notin kinds =>
                \A k \in DOMAIN longer :
                    Latest(longer, i, kinds, k) <=> k \in DOMAIN log /\ Latest(log, i, kinds, k)
           /\ DOMAIN log \subseteq DOMAIN longer /\ Len(log) + 1 \in DOMAIN longer
           /\ \A k \in DOMAIN log : longer[k] = log[k]
           /\ longer[Len(log) + 1] = e
  <1>1. /\ DOMAIN log = 1..Len(log) /\ DOMAIN longer = 1..(Len(log) + 1) /\ Len(log) \in Nat
        /\ \A k \in 1..Len(log) : longer[k] = log[k]
        /\ longer[Len(log) + 1] = e
    OBVIOUS
  <1>2. PICK m \in Nat : m = Len(log)
    BY <1>1
  <1>3. ASSUME e.id # i \/ e.op \notin kinds, NEW k \in 1..(m + 1)
        PROVE  Latest(longer, i, kinds, k) <=> k \in 1..m /\ Latest(log, i, kinds, k)
    BY <1>1, <1>2, <1>3 DEF Latest
  <1> QED
    BY <1>1, <1>2, <1>3

\* The row a transaction finds and the one it writes.
LEMMA RowWritten ==
    ASSUME TypeInv, Progress, NEW n \in Admins, NEW a \in Admins, opened[a] = n,
           pc[a] # "new", command[a].op # "init", Permitted(a), Writes(a)
    PROVE  /\ command[a].id \in Ids /\ OldRow(a) = stored[n].rows[command[a].id]
           /\ stored[n].rows \in Rows
           /\ NewRow(a) # Absent
           /\ Issues(a) => NewRow(a).credential = a /\ NewRow(a).active
           /\ ~Issues(a) => /\ command[a].op = "revoke" /\ OldRow(a).active
                            /\ OldRow(a) # Absent /\ ~NewRow(a).active
                            /\ NewRow(a).credential = OldRow(a).credential
           /\ command[a].op = "register" =>
                OldRow(a) = Absent /\ Cardinality(Registered(stored[n].rows)) < MaxRegistrations
           /\ command[a].op # "register" => OldRow(a) # Absent
  <1>1. /\ command[a].id \in Ids /\ command[a].op \in {"register", "rotate", "revoke"}
        /\ stored[n].rows \in Rows
    BY HasCommand, CommandKinds DEF TypeInv, Store
  <1>2. OldRow(a) = stored[n].rows[command[a].id] /\ OldRow(a) \in Registration \cup {Absent}
    BY <1>1 DEF OldRow, Rows
  <1>3. CASE Issues(a)
    <2>1. NewRow(a) = [credential |-> a, active |-> TRUE]
      BY <1>3 DEF NewRow
    <2>2. NewRow(a).credential = a /\ NewRow(a).active /\ NewRow(a) # Absent
      BY <2>1 DEF Absent
    <2>3. /\ command[a].op = "register" =>
               OldRow(a) = Absent /\ Cardinality(Registered(stored[n].rows)) < MaxRegistrations
          /\ command[a].op = "rotate" => OldRow(a) # Absent
          /\ command[a].op # "revoke"
      BY <1>2, <1>3 DEF Permitted, Issues, IssueKinds
    <2> QED
      BY <1>1, <1>2, <1>3, <2>2, <2>3
  <1>4. CASE ~Issues(a)
    <2>1. OldRow(a).active /\ command[a].op = "revoke"
      BY <1>1, <1>4 DEF Writes, Issues, IssueKinds
    <2>2. OldRow(a) # Absent
      BY <2>1 DEF Absent
    <2>3. OldRow(a).credential # NoAdmin
      BY <1>2, <2>2, NoAdminAssumption DEF Registration
    <2>4. NewRow(a) = [credential |-> OldRow(a).credential, active |-> FALSE]
      BY <1>4 DEF NewRow
    <2>5. NewRow(a).credential = OldRow(a).credential /\ ~NewRow(a).active /\ NewRow(a) # Absent
      BY <2>3, <2>4 DEF Absent
    <2> QED
      BY <1>1, <1>2, <1>4, <2>1, <2>2, <2>5
  <1> QED
    BY <1>3, <1>4

\* At first nothing is registered and nothing logged.
LEMMA RowsInit == Init => AuditExplainsRows /\ Limit /\ SnapshotIsCommitted
  <1> SUFFICES ASSUME Init PROVE AuditExplainsRows /\ Limit /\ SnapshotIsCommitted
    OBVIOUS
  <1>1. ASSUME NEW n \in Admins
        PROVE  /\ stored[n].audit = <<>> /\ DOMAIN stored[n].audit = {}
               /\ \A i \in Ids : stored[n].rows[i] = Absent
    BY DEF Init, EmptyStore, NoRows
  <1>2. AuditExplainsRows
    BY <1>1 DEF AuditExplainsRows
  <1>3. \A n \in Admins : Registered(stored[n].rows) = {}
    BY <1>1 DEF Registered
  <1>4. Limit
    BY <1>3, FS_EmptySet, LimitAssumption DEF Limit
  <1>5. SnapshotIsCommitted
    BY DEF Init, SnapshotIsCommitted
  <1> QED
    BY <1>2, <1>4, <1>5

\* How the log of a store explains one of its rows.
Explains(log, row, i) ==
    /\ row # Absent <=> \E k \in DOMAIN log : Latest(log, i, IssueKinds, k)
    /\ \A k \in DOMAIN log : Latest(log, i, IssueKinds, k) => row.credential = log[k].by
    /\ \A k \in DOMAIN log : Latest(log, i, ChangeKinds, k) => (row.active <=> log[k].op \in IssueKinds)

\* The event a commit appends explains the row it wrote, and leaves the others explained.
LEMMA ExplainsStep ==
    ASSUME TypeInv, Progress, Inodes, Drafts, NEW n \in Admins, NEW i \in Ids,
           NEW a \in Admins, Commit(a), opened[a] = n, Appends(a, n),
           Explains(stored[n].audit, stored[n].rows[i], i)
    PROVE  Explains(stored'[n].audit, stored'[n].rows[i], i)
  <1>1. PICK log, longer, e, row :
          log = stored[n].audit /\ longer = stored'[n].audit /\ e = EventOf(a) /\ row = stored[n].rows[i]
    OBVIOUS
  <1>2. log \in Seq(Event) /\ longer = Append(log, e)
    BY <1>1, LogGrows DEF Appends
  <1>3. e.by = a /\ e.op = command[a].op /\ e.id = command[a].id
    BY <1>1 DEF EventOf
  <1>4. /\ pc[a] # "new" /\ command[a].id \in Ids
        /\ command[a].op \in {"init", "register", "rotate", "revoke"}
    BY HasCommand, CommandKinds DEF Commit
  <1>5. e \in Event
    BY <1>1, <1>4 DEF EventOf, Event, ChangeKinds
  <1>6. /\ row # Absent <=> \E k \in DOMAIN log : Latest(log, i, IssueKinds, k)
        /\ \A k \in DOMAIN log : Latest(log, i, IssueKinds, k) => row.credential = log[k].by
        /\ \A k \in DOMAIN log : Latest(log, i, ChangeKinds, k) =>
             (row.active <=> log[k].op \in IssueKinds)
    BY <1>1 DEF Explains
  <1>7. /\ DOMAIN log \subseteq DOMAIN longer /\ Len(log) + 1 \in DOMAIN longer
        /\ \A k \in DOMAIN log : longer[k] = log[k]
        /\ longer[Len(log) + 1] = e
    BY <1>2, <1>5, LatestGrows
  <1>8. CASE e.op = "init" \/ e.id # i
    <2>1. stored'[n].rows[i] = row
      <3>1. CASE command[a].op = "init"
        BY <1>1, <3>1 DEF Appends
      <3>2. CASE command[a].op # "init"
        BY <1>1, <1>3, <1>8, <3>2, RowWritten, <1>4 DEF Appends, Rows
      <3> QED
        BY <3>1, <3>2
    <2>2. /\ \A k \in DOMAIN longer :
               Latest(longer, i, IssueKinds, k) <=> k \in DOMAIN log /\ Latest(log, i, IssueKinds, k)
          /\ \A k \in DOMAIN longer :
               Latest(longer, i, ChangeKinds, k) <=> k \in DOMAIN log /\ Latest(log, i, ChangeKinds, k)
      <3>1. /\ e.id # i \/ e.op \notin IssueKinds
            /\ e.id # i \/ e.op \notin ChangeKinds
        BY <1>8 DEF IssueKinds, ChangeKinds
      <3> QED
        BY <1>2, <1>5, <3>1, LatestGrows
    <2> QED
      BY <1>1, <1>6, <1>7, <2>1, <2>2 DEF Explains
  <1>9. CASE e.op # "init" /\ e.id = i
    <2>1. /\ command[a].op # "init" /\ Permitted(a) /\ Writes(a)
          /\ stored'[n].rows = [stored[n].rows EXCEPT ![i] = NewRow(a)]
      BY <1>3, <1>9 DEF Appends
    <2>2. stored'[n].rows[i] = NewRow(a) /\ OldRow(a) = row
      <3>1. /\ OldRow(a) = stored[n].rows[command[a].id] /\ stored[n].rows \in Rows
            /\ command[a].id = i
        BY <1>3, <1>4, <1>9, <2>1, RowWritten
      <3>2. DOMAIN stored[n].rows = Ids
        BY <3>1 DEF Rows
      <3> QED
        BY <1>1, <2>1, <3>1, <3>2
    <2>3. e.op \in ChangeKinds /\ (Issues(a) <=> e.op \in IssueKinds)
      BY <1>3, <1>4, <1>9 DEF ChangeKinds, Issues
    <2>4. \A k \in DOMAIN longer : Latest(longer, i, ChangeKinds, k) <=> k = Len(log) + 1
      <3>1. e.id = i /\ e.op \in ChangeKinds
        BY <1>9, <2>3
      <3> QED
        BY <1>2, <1>5, <3>1, LatestAppended
    <2>5. CASE Issues(a)
      <3>1. NewRow(a) # Absent /\ NewRow(a).credential = a /\ NewRow(a).active
        BY <1>4, <2>1, <2>5, RowWritten
      <3>2. \A k \in DOMAIN longer : Latest(longer, i, IssueKinds, k) <=> k = Len(log) + 1
        <4>1. e.id = i /\ e.op \in IssueKinds
          BY <1>9, <2>3, <2>5
        <4> QED
          BY <1>2, <1>5, <4>1, LatestAppended
      <3> QED
        BY <1>1, <1>3, <1>7, <2>2, <2>3, <2>4, <2>5, <3>1, <3>2 DEF Explains
    <2>6. CASE ~Issues(a)
      <3>1. NewRow(a) # Absent /\ row # Absent /\ NewRow(a).credential = row.credential /\ ~NewRow(a).active
        BY <1>4, <2>1, <2>2, <2>6, RowWritten
      <3>2. \A k \in DOMAIN longer :
              Latest(longer, i, IssueKinds, k) <=> k \in DOMAIN log /\ Latest(log, i, IssueKinds, k)
        BY <1>2, <1>5, <2>3, <2>6, LatestGrows
      <3> QED
        BY <1>1, <1>6, <1>7, <2>2, <2>3, <2>4, <2>6, <3>1, <3>2 DEF Explains
    <2> QED
      BY <2>5, <2>6
  <1> QED
    BY <1>8, <1>9

\* Every step keeps the log an explanation of the registrations.
LEMMA AuditStep ==
    ASSUME TypeInv, Progress, Inodes, Drafts, AuditExplainsRows, [Next]_vars
    PROVE  AuditExplainsRows'
  <1>1. ASSUME NEW n \in Admins, NEW i \in Ids
        PROVE  Explains(stored'[n].audit, stored'[n].rows[i], i)
    <2>1. Explains(stored[n].audit, stored[n].rows[i], i)
      BY DEF AuditExplainsRows, Explains
    <2>2. CASE stored'[n] = stored[n]
      BY <2>1, <2>2
    <2>3. ASSUME NEW a \in Admins, Commit(a), opened[a] = n, Appends(a, n)
          PROVE  Explains(stored'[n].audit, stored'[n].rows[i], i)
      BY <2>1, <2>3, ExplainsStep
    <2> QED
      BY <2>2, <2>3, LogAction
  <1> QED
    BY <1>1 DEF AuditExplainsRows, Explains, Latest

\* Every step keeps the number of registrations within the limit: only a register
\* adds one, and it counted them in its own transaction.
LEMMA LimitStep ==
    ASSUME TypeInv, Progress, Inodes, Drafts, Limit, [Next]_vars
    PROVE  Limit'
  <1> SUFFICES ASSUME NEW n \in Admins
               PROVE  /\ IsFiniteSet(Registered(stored'[n].rows))
                      /\ Cardinality(Registered(stored'[n].rows)) <= MaxRegistrations
    BY DEF Limit, Registered
  <1>1. PICK old, new : old = Registered(stored[n].rows) /\ new = Registered(stored'[n].rows)
    OBVIOUS
  <1>2. IsFiniteSet(old) /\ Cardinality(old) <= MaxRegistrations
    BY <1>1 DEF Limit
  <1>3. CASE stored'[n].rows = stored[n].rows
    BY <1>1, <1>2, <1>3
  <1>4. ASSUME NEW a \in Admins, Commit(a), opened[a] = n, Appends(a, n), command[a].op # "init"
        PROVE  IsFiniteSet(new) /\ Cardinality(new) <= MaxRegistrations
    <2>1. PICK i : i = command[a].id
      OBVIOUS
    <2>2. /\ Permitted(a) /\ Writes(a) /\ pc[a] # "new"
          /\ stored'[n].rows = [stored[n].rows EXCEPT ![i] = NewRow(a)]
      BY <1>4, <2>1 DEF Appends, Commit
    <2>3. /\ i \in Ids /\ stored[n].rows \in Rows /\ NewRow(a) # Absent
          /\ command[a].op = "register" => Cardinality(old) < MaxRegistrations
          /\ command[a].op # "register" => stored[n].rows[i] # Absent
      BY <1>1, <1>4, <2>1, <2>2, RowWritten
    <2>4. new = old \cup {i}
      BY <1>1, <2>2, <2>3 DEF Registered, Rows
    <2>5. CASE i \in old
      <3>1. new = old
        BY <2>4, <2>5
      <3> QED
        BY <1>2, <3>1
    <2>6. CASE i \notin old
      <3>1. Cardinality(old) < MaxRegistrations
        BY <1>1, <2>3, <2>6 DEF Registered
      <3>2. IsFiniteSet(new) /\ Cardinality(new) = Cardinality(old) + 1 /\ Cardinality(old) \in Nat
        BY <1>2, <2>4, <2>6, FS_AddElement, FS_CardinalityType
      <3> QED
        BY <3>1, <3>2, LimitAssumption
    <2> QED
      BY <2>5, <2>6
  <1>5. \/ stored'[n].rows = stored[n].rows
        \/ \E a \in Admins : Commit(a) /\ opened[a] = n /\ Appends(a, n) /\ command[a].op # "init"
    BY LogAction DEF Appends
  <1> QED
    BY <1>1, <1>3, <1>4, <1>5

-----------------------------------------------------------------------------
(* The invariant, and what follows from it *)

\* The invariant holds at first.
LEMMA StoreInit == Init => StoreInv
  BY TypeInit, ProgressInit, InodesInit, DraftsInit, LogsInit, OutputsInit, RowsInit DEF StoreInv

\* Every step keeps it.
LEMMA StoreStep == StoreInv /\ [Next]_vars => StoreInv'
  <1> SUFFICES ASSUME StoreInv, [Next]_vars PROVE StoreInv'
    OBVIOUS
  <1> USE DEF StoreInv
  <1>1. TypeInv' /\ Progress'
    BY TypeStep, ProgressStep
  <1>2. Inodes' /\ Drafts'
    BY <1>1, InodesStep, DraftsStep
  <1>3. Logs' /\ Outputs'
    BY <1>1, LogsStep, OutputsStep
  <1>4. SnapshotIsCommitted' /\ Limit' /\ AuditExplainsRows'
    BY SnapshotStep, LimitStep, AuditStep
  <1> QED
    BY <1>1, <1>2, <1>3, <1>4

\* A credential that is in the log and not admitted is not admitted after a step: an
\* issue admits only its own, which no log has before it commits.
LEMMA RetiredStep ==
    ASSUME StoreInv, [Next]_vars, NEW n \in Admins
    PROVE  Retired(stored[n]) \cap Admitted(stored'[n]) = {}
  <1> SUFFICES ASSUME NEW x \in Retired(stored[n]), x \in Admitted(stored'[n]) PROVE FALSE
    OBVIOUS
  <1> USE DEF StoreInv
  <1>1. /\ x \notin Admitted(stored[n])
        /\ \E k \in DOMAIN stored[n].audit : stored[n].audit[k].by = x
    BY DEF Retired
  <1>2. PICK j \in Ids : stored'[n].rows[j].active /\ stored'[n].rows[j].credential = x
    BY DEF Admitted
  <1>3. stored'[n].rows[j] # stored[n].rows[j]
    BY <1>1, <1>2 DEF Admitted
  <1>4. PICK a \in Admins : Commit(a) /\ opened[a] = n /\ Appends(a, n)
    BY <1>3, LogAction
  <1>5. /\ command[a].op # "init" /\ Permitted(a) /\ Writes(a)
        /\ stored'[n].rows = [stored[n].rows EXCEPT ![command[a].id] = NewRow(a)]
    BY <1>3, <1>4 DEF Appends
  <1>6. pc[a] = "committing" /\ result[a] = "none"
    BY <1>4 DEF Commit, Progress, Places, TypeInv
  <1>7. stored[n].rows \in Rows /\ (Issues(a) => NewRow(a).credential = a)
        /\ (~Issues(a) => ~NewRow(a).active)
    BY <1>4, <1>5, <1>6, RowWritten
  <1>8. j = command[a].id /\ stored'[n].rows[j] = NewRow(a)
    BY <1>3, <1>5, <1>7 DEF Rows
  <1>9. x = a
    BY <1>2, <1>7, <1>8
  <1>10. Committed(a)
    BY <1>1, <1>9 DEF Logs
  <1> QED
    BY <1>6, <1>10 DEF Committed

\* The events of a store are those of processes that may have committed.
LEMMA EventBy ==
    ASSUME TypeInv, NEW n \in Admins, NEW k \in DOMAIN stored[n].audit
    PROVE  stored[n].audit[k].by \in Admins
  <1>1. stored[n].audit \in Seq(Event)
    BY DEF TypeInv, Store
  <1>2. stored[n].audit[k] \in Event
    BY <1>1
  <1> QED
    BY <1>2 DEF Event

\* The invariant makes every committed credential delivered, and every file of a
\* command that failed one whose change is in the log.
LEMMA InvDelivers == StoreInv => DeliveryMatchesOutcome
  <1> SUFFICES ASSUME StoreInv PROVE DeliveryMatchesOutcome
    OBVIOUS
  <1> USE DEF StoreInv
  <1>1. ASSUME NEW n \in Admins, NEW e \in Events(n), e.op \in IssueKinds
        PROVE  files[Output(e.by)] = [of |-> e.by, whole |-> TRUE]
    <2>1. PICK k \in DOMAIN stored[n].audit : e = stored[n].audit[k]
      BY DEF Events
    <2> QED
      BY <1>1, <2>1, EventBy DEF Outputs
  <1>2. ASSUME NEW f \in Files, files[f] # NoFile, result[files[f].of] = "failed"
        PROVE  \E e \in Events(opened[files[f].of]) : e.by = files[f].of
    <2>1. PICK a \in Admins : a = files[f].of
      BY <1>2 DEF Outputs, TypeInv
    <2>2. Audited(a)
      BY <1>2, <2>1 DEF Outputs
    <2> QED
      BY <2>1, <2>2 DEF Audited, Events
  <1> QED
    BY <1>1, <1>2 DEF DeliveryMatchesOutcome

\* The invariant makes what was reported the truth, and each event the only one of its
\* process.
LEMMA InvTellsOutcome == StoreInv => OutcomeIsTrue
  <1> SUFFICES ASSUME StoreInv, NEW a \in Admins
               PROVE  LET Mine(n) == {k \in DOMAIN stored[n].audit : stored[n].audit[k].by = a}
                      IN  /\ result[a] = "ok" /\ (Issues(a) \/ command[a].op = "init") =>
                               Mine(opened[a]) # {}
                          /\ \A n \in Admins : \A k, l \in Mine(n) : n = opened[a] /\ k = l
    BY DEF OutcomeIsTrue
  <1> DEFINE Mine(n) == {k \in DOMAIN stored[n].audit : stored[n].audit[k].by = a}
  <1> USE DEF StoreInv
  <1>1. ASSUME result[a] = "ok", Issues(a) \/ command[a].op = "init"
        PROVE  Mine(opened[a]) # {}
    BY <1>1 DEF Logs, Audited
  <1>2. ASSUME NEW n \in Admins, NEW k \in Mine(n), NEW l \in Mine(n)
        PROVE  n = opened[a] /\ k = l
    BY <1>2 DEF Logs
  <1> QED
    BY <1>1, <1>2

\* The invariant keeps an initialized store at its path, and every store readable.
LEMMA InvKeepsStore == StoreInv => InitializedStays /\ StoreStaysReadable
  <1> SUFFICES ASSUME StoreInv PROVE InitializedStays /\ StoreStaysReadable
    OBVIOUS
  <1>1. ASSUME NEW a \in Admins, result[a] = "ok", command[a].op = "init" PROVE database = a
    <2>1. opened[a] # NoAdmin
      BY <1>1 DEF StoreInv, Progress, Places
    <2> QED
      BY <1>1, <2>1 DEF StoreInv, Inodes
  <1> QED
    BY <1>1 DEF InitializedStays, StoreStaysReadable, StoreInv, Limit

-----------------------------------------------------------------------------
(* The theorems *)

\* In every reachable state the invariant holds: it ties each command's place and
\* outcome to the inode at the path, the logs and the output files (admin.rs:68-111,
\* 230-301, 468-516).
THEOREM StoreIsSafe == Spec => []StoreInv
  BY StoreInit, StoreStep, PTL DEF Spec

\* A committed credential is in its file, whole, and a command that failed left a file
\* only if its change was committed (admin.rs:3-6, 278-280, 468-475, 512-514).
THEOREM Delivery == Spec => []DeliveryMatchesOutcome
  BY StoreIsSafe, InvDelivers, PTL

\* The log explains every registration (admin.rs:277, 297).
THEOREM AuditExplains == Spec => []AuditExplainsRows
  <1>1. StoreInv => AuditExplainsRows
    BY DEF StoreInv
  <1> QED
    BY <1>1, StoreIsSafe, PTL

\* A success is in the log of its store; no command is in any log twice or in two
\* (admin.rs:230-301).
THEOREM Outcomes == Spec => []OutcomeIsTrue
  BY StoreIsSafe, InvTellsOutcome, PTL

\* A store whose initialization succeeded stays (admin.rs:85-90, 105).
THEOREM Initialized == Spec => []InitializedStays
  BY StoreIsSafe, InvKeepsStore, PTL

\* A reader sees one committed store (admin.rs:168-209).
THEOREM Snapshots == Spec => []SnapshotIsCommitted
  <1>1. StoreInv => SnapshotIsCommitted
    BY DEF StoreInv
  <1> QED
    BY <1>1, StoreIsSafe, PTL

\* The limit on registrations is never exceeded (admin.rs:202, 259).
THEOREM StaysReadable == Spec => []StoreStaysReadable
  BY StoreIsSafe, InvKeepsStore, PTL

\* A retired credential is never admitted again (admin.rs:268-271).
THEOREM RetiredForGood == Spec => RetiredStaysRetired
  <1>1. StoreInv /\ [Next]_vars =>
          [\A n \in Admins : Retired(stored[n]) \cap Admitted(stored'[n]) = {}]_vars
    BY RetiredStep
  <1> QED
    BY <1>1, StoreIsSafe, PTL DEF Spec, RetiredStaysRetired
=============================================================================
