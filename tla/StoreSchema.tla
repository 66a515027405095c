------------------------------ MODULE StoreSchema -----------------------------
(***************************************************************************)
(* AskStore::open (tools/discord/src/common/store.rs): any number of       *)
(* processes open discord.db at once, the first of them bring its schema   *)
(* up to date, and any of them may die on the way.                         *)
(***************************************************************************)
EXTENDS Absent, Naturals

CONSTANT Opener

ASSUME OpenerAssumption == None \notin Opener

VARIABLES db,       \* what is committed
          tx,       \* the working copy of the transaction that holds the write lock
          writer,   \* who holds it
          wal,      \* the journal mode is WAL
          opening   \* where each process stands

storeVars == <<db, tx, writer, wal, opening>>

Latest == 2  \* LATEST_SCHEMA_VERSION

\* "table": schema_version exists; "version": its row, 0 without one; "asks": the version
\* whose columns the asks table has, 0 without the table.
Schema == [table : BOOLEAN, version : 0..Latest, asks : 0..Latest]

\* A database as some binary can have left it: a stamped one is what its stamp says, and
\* without a stamp there may be a v1 table whose creator died before it stamped it.
Stamped(s) == /\ s.version > 0 => s.table /\ s.asks = s.version
              /\ s.version = 0 => s.asks < 2

OpeningState == {"closed", "wal", "probe", "begin", "create", "alter", "commit", "open",
                 "busy", "collided"}
InTransaction == {"create", "alter", "commit"}

StoreInit == /\ db \in {s \in Schema : Stamped(s)}
             /\ tx = db
             /\ writer = None
             /\ wal \in BOOLEAN
             /\ opening = [o \in Opener |-> "closed"]

StoreTypeOK == /\ db \in Schema /\ tx \in Schema
               /\ writer \in Opener \cup {None}
               /\ wal \in BOOLEAN
               /\ opening \in [Opener -> OpeningState]

OpeningTo(o, s) == opening' = [opening EXCEPT ![o] = s]

Connect(o) ==
    /\ opening[o] = "closed"
    /\ OpeningTo(o, "wal")
    /\ UNCHANGED <<db, tx, writer, wal>>

\* enable_wal, tried again while another connection is in the way.
EnableWal(o) ==
    /\ opening[o] = "wal"
    /\ wal \/ writer = None
    /\ wal' = TRUE
    /\ OpeningTo(o, "probe")
    /\ UNCHANGED <<db, tx, writer>>

\* The lock-free look that spares an up-to-date database the write lock.
Probe(o) ==
    /\ opening[o] = "probe"
    /\ OpeningTo(o, IF db.version >= Latest THEN "open" ELSE "begin")
    /\ UNCHANGED <<db, tx, writer, wal>>

BeginImmediate(o) ==
    /\ opening[o] = "begin"
    /\ writer = None
    /\ writer' = o
    /\ tx' = db
    /\ OpeningTo(o, "create")
    /\ UNCHANGED <<db, wal>>

\* The version is read again under the lock.
CreateAsks(o) ==
    /\ opening[o] = "create"
    /\ tx' = IF tx.version < 1
             THEN [table |-> TRUE, version |-> 1, asks |-> IF tx.asks = 0 THEN 1 ELSE tx.asks]
             ELSE [tx EXCEPT !.table = TRUE]
    /\ OpeningTo(o, "alter")
    /\ UNCHANGED <<db, writer, wal>>

\* A bug to rule out: what the probe found is trusted under the lock.
AlterUnchecked(o) ==
    /\ opening[o] = "alter"
    /\ \/ /\ tx.asks < 2
          /\ tx' = [tx EXCEPT !.asks = 2, !.version = 2]
          /\ OpeningTo(o, "commit")
          /\ UNCHANGED writer
       \/ /\ tx.asks = 2
          /\ OpeningTo(o, "collided")
          /\ writer' = None
          /\ UNCHANGED tx
    /\ UNCHANGED <<db, wal>>

\* ALTER TABLE fails on a column that is there.
AlterAsks(o) ==
    /\ opening[o] = "alter"
    /\ IF tx.version >= 2 \/ tx.asks < 2
       THEN /\ tx' = IF tx.version >= 2 THEN tx ELSE [tx EXCEPT !.asks = 2, !.version = 2]
            /\ OpeningTo(o, "commit")
            /\ UNCHANGED writer
       ELSE /\ OpeningTo(o, "collided")
            /\ writer' = None
            /\ UNCHANGED tx
    /\ UNCHANGED <<db, wal>>

CommitSchema(o) ==
    /\ opening[o] = "commit"
    /\ db' = tx
    /\ writer' = None
    /\ OpeningTo(o, "open")
    /\ UNCHANGED <<tx, wal>>

\* The busy timeout: another connection kept the lock for five seconds.
GiveUpBusy(o) ==
    /\ opening[o] \in {"wal", "begin"}
    /\ writer # None
    /\ OpeningTo(o, "busy")
    /\ UNCHANGED <<db, tx, writer, wal>>

\* The process is done with the store, or dies: an open transaction rolls back.
Disconnect(o) ==
    /\ opening[o] # "closed"
    /\ OpeningTo(o, "closed")
    /\ writer' = IF writer = o THEN None ELSE writer
    /\ UNCHANGED <<db, tx, wal>>

OpenStep(o) == \/ EnableWal(o) \/ Probe(o) \/ BeginImmediate(o) \/ CreateAsks(o)
               \/ AlterAsks(o) \/ CommitSchema(o)

StoreNext == \E o \in Opener : Connect(o) \/ OpenStep(o) \/ GiveUpBusy(o) \/ Disconnect(o)

StoreSpec == StoreInit /\ [][StoreNext]_storeVars

-------------------------------------------------------------------------------
\* Whoever has the store open works on the latest schema, and nobody is turned away by a
\* schema that another process migrated at the same time or left half migrated (migrate:
\* re-read under BEGIN IMMEDIATE, a crash rolls back).
OpenIsSound ==
    /\ \A o \in Opener : opening[o] = "open" => db.version = Latest /\ db.asks = Latest
    /\ \A o \in Opener : opening[o] # "collided"

\* What makes it inductive: one process at most is in a transaction, it works on a copy of
\* what is committed, and every stamp is true.
TransactionIsExclusive ==
    \A o \in Opener : opening[o] \in InTransaction <=> writer = o

WorkIsStamped ==
    /\ Stamped(db)
    /\ writer # None =>
         /\ Stamped(tx) /\ tx.version >= db.version
         /\ opening[writer] = "alter" => tx.version >= 1
         /\ opening[writer] = "commit" => tx.version = Latest

SchemaInv == StoreTypeOK /\ OpenIsSound /\ TransactionIsExclusive /\ WorkIsStamped
===============================================================================
