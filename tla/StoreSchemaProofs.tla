--------------------------- MODULE StoreSchemaProofs --------------------------
(***************************************************************************)
(* Theorems about StoreSchema, for any set of processes.                   *)
(***************************************************************************)
EXTENDS StoreSchema, TLAPS

\* What the second migration leaves of a schema.
LEMMA Altered ==
    ASSUME NEW r \in Schema, NEW n, n = [r EXCEPT !.asks = 2, !.version = 2]
    PROVE  n \in Schema /\ n.table = r.table /\ n.version = 2 /\ n.asks = 2
<1>1. n = [[r EXCEPT !.asks = 2] EXCEPT !.version = 2]
  BY DEF Schema
<1>2. PICK m : m = [r EXCEPT !.asks = 2]
  OBVIOUS
<1>3. m \in Schema /\ m.table = r.table /\ m.asks = 2
  BY <1>2 DEF Schema, Latest
<1>4. n = [m EXCEPT !.version = 2]
  BY <1>1, <1>2
<1>5. QED  BY <1>3, <1>4 DEF Schema, Latest

LEMMA StoreInitSound == StoreInit => SchemaInv
<1> SUFFICES ASSUME StoreInit PROVE SchemaInv
  OBVIOUS
<1>1. StoreTypeOK
  BY DEF StoreInit, StoreTypeOK, OpeningState
<1>2. OpenIsSound
  BY DEF StoreInit, OpenIsSound
<1>3. TransactionIsExclusive
  BY OpenerAssumption DEF StoreInit, TransactionIsExclusive, InTransaction
<1>4. WorkIsStamped
  BY DEF StoreInit, WorkIsStamped
<1>5. QED  BY <1>1, <1>2, <1>3, <1>4 DEF SchemaInv

\* A step that moves one process and leaves database and lock alone.
LEMMA QuietMove ==
    ASSUME SchemaInv, NEW o \in Opener, NEW s \in OpeningState \ {"collided"},
           OpeningTo(o, s), UNCHANGED <<db, tx, writer>>, wal' \in BOOLEAN,
           opening[o] \notin InTransaction, s \notin InTransaction,
           s = "open" => db.version = Latest
    PROVE  SchemaInv'
<1> USE DEF SchemaInv
<1>1. StoreTypeOK'
  BY DEF StoreTypeOK, OpeningTo
<1>2. OpenIsSound'
  <2>1. db.version = Latest => db.asks = Latest
    BY DEF WorkIsStamped, Stamped, Latest, StoreTypeOK, Schema
  <2>2. QED  BY <2>1 DEF OpenIsSound, OpeningTo, StoreTypeOK
<1>3. TransactionIsExclusive'
  BY DEF TransactionIsExclusive, OpeningTo, StoreTypeOK
<1>4. WorkIsStamped'
  <2>1. writer # None => writer # o /\ writer \in Opener
    BY DEF TransactionIsExclusive, StoreTypeOK
  <2>2. writer # None => opening'[writer] = opening[writer]
    BY <2>1 DEF OpeningTo, StoreTypeOK
  <2>3. QED  BY <2>2 DEF WorkIsStamped, Stamped
<1>5. QED  BY <1>1, <1>2, <1>3, <1>4

LEMMA ConnectSound ==
    ASSUME SchemaInv, NEW o \in Opener, Connect(o)
    PROVE  SchemaInv'
BY QuietMove DEF SchemaInv, Connect, StoreTypeOK, OpeningState, InTransaction

LEMMA EnableWalSound ==
    ASSUME SchemaInv, NEW o \in Opener, EnableWal(o)
    PROVE  SchemaInv'
BY QuietMove DEF EnableWal, OpeningState, InTransaction

LEMMA ProbeSound ==
    ASSUME SchemaInv, NEW o \in Opener, Probe(o)
    PROVE  SchemaInv'
<1>1. db.version \in 0..Latest /\ wal' \in BOOLEAN
  BY DEF SchemaInv, StoreTypeOK, Schema, Probe
<1>2. CASE db.version >= Latest
  BY <1>1, <1>2, QuietMove DEF Probe, OpeningState, InTransaction, Latest
<1>3. CASE ~(db.version >= Latest)
  BY <1>1, <1>3, QuietMove DEF Probe, OpeningState, InTransaction
<1>4. QED  BY <1>2, <1>3

LEMMA GiveUpSound ==
    ASSUME SchemaInv, NEW o \in Opener, GiveUpBusy(o)
    PROVE  SchemaInv'
BY QuietMove DEF SchemaInv, GiveUpBusy, StoreTypeOK, OpeningState, InTransaction

LEMMA BeginSound ==
    ASSUME SchemaInv, NEW o \in Opener, BeginImmediate(o)
    PROVE  SchemaInv'
<1> USE DEF SchemaInv, BeginImmediate, OpeningTo
<1>1. StoreTypeOK'
  BY DEF StoreTypeOK, OpeningState
<1>2. OpenIsSound'
  BY DEF OpenIsSound, StoreTypeOK
<1>3. TransactionIsExclusive'
  BY OpenerAssumption DEF TransactionIsExclusive, InTransaction, StoreTypeOK
<1>4. WorkIsStamped'
  BY DEF WorkIsStamped, Stamped, StoreTypeOK, Schema
<1>5. QED  BY <1>1, <1>2, <1>3, <1>4

LEMMA CreateSound ==
    ASSUME SchemaInv, NEW o \in Opener, CreateAsks(o)
    PROVE  SchemaInv'
<1>1. writer = o /\ Stamped(tx) /\ tx \in Schema /\ tx.version >= db.version
  BY OpenerAssumption DEF SchemaInv, CreateAsks, TransactionIsExclusive, InTransaction,
                          WorkIsStamped, StoreTypeOK
<1>2. /\ opening' = [opening EXCEPT ![o] = "alter"] /\ opening[o] = "create"
      /\ UNCHANGED <<db, writer, wal>>
  BY DEF CreateAsks, OpeningTo
<1>3. tx' \in Schema /\ Stamped(tx)' /\ tx'.version >= tx.version /\ tx'.version >= 1
  <2>1. tx.version \in 0..2 /\ tx.asks \in 0..2
    BY <1>1 DEF Schema, Latest
  <2>2. CASE tx.version < 1
    <3>1. tx.version = 0 /\ tx.asks \in 0..1
      BY <1>1, <2>1, <2>2 DEF Stamped
    <3>2. tx' = [table |-> TRUE, version |-> 1, asks |-> IF tx.asks = 0 THEN 1 ELSE tx.asks]
      BY <2>2 DEF CreateAsks
    <3>3. (IF tx.asks = 0 THEN 1 ELSE tx.asks) = 1
      BY <3>1
    <3>4. tx' = [table |-> TRUE, version |-> 1, asks |-> 1]
      BY <3>2, <3>3
    <3>5. tx' \in Schema
      BY <3>4 DEF Schema, Latest
    <3>6. QED  BY <3>1, <3>4, <3>5 DEF Stamped
  <2>3. CASE ~(tx.version < 1)
    <3>1. tx' = [tx EXCEPT !.table = TRUE]
      BY <2>3 DEF CreateAsks
    <3>2. tx' \in Schema /\ tx'.table = TRUE /\ tx'.version = tx.version /\ tx'.asks = tx.asks
      BY <1>1, <3>1 DEF Schema
    <3>3. tx.version > 0 /\ tx.asks = tx.version
      BY <1>1, <2>1, <2>3 DEF Stamped
    <3>4. QED  BY <2>1, <3>2, <3>3 DEF Stamped
  <2>4. QED  BY <2>2, <2>3
<1>4. StoreTypeOK'
  BY <1>2, <1>3 DEF SchemaInv, StoreTypeOK, OpeningState
<1>5. OpenIsSound'
  BY <1>2 DEF SchemaInv, OpenIsSound, StoreTypeOK
<1>6. TransactionIsExclusive'
  BY <1>1, <1>2 DEF SchemaInv, TransactionIsExclusive, InTransaction, StoreTypeOK
<1>7. WorkIsStamped'
  <2>1. Stamped(db)' /\ tx'.version >= db'.version
    BY <1>1, <1>2, <1>3 DEF SchemaInv, WorkIsStamped, Stamped, StoreTypeOK, Schema, Latest
  <2>2. opening'[writer'] = "alter"
    BY <1>1, <1>2 DEF SchemaInv, StoreTypeOK
  <2>3. QED  BY <1>3, <2>1, <2>2 DEF WorkIsStamped
<1>8. QED  BY <1>4, <1>5, <1>6, <1>7 DEF SchemaInv

\* Under the lock a stamp below 2 means columns below 2: ALTER TABLE never finds them there.
LEMMA AlterSound ==
    ASSUME SchemaInv, NEW o \in Opener, AlterAsks(o)
    PROVE  SchemaInv'
<1>1. writer = o /\ Stamped(tx) /\ tx \in Schema /\ tx.version >= 1 /\ tx.version >= db.version
  BY OpenerAssumption DEF SchemaInv, AlterAsks, TransactionIsExclusive, InTransaction,
                          WorkIsStamped, StoreTypeOK
<1>2. tx.version \in 1..2 /\ tx.asks = tx.version /\ tx.table
  BY <1>1 DEF Schema, Stamped, Latest
<1>3. /\ opening' = [opening EXCEPT ![o] = "commit"] /\ opening[o] = "alter"
      /\ tx' = IF tx.version >= 2 THEN tx ELSE [tx EXCEPT !.asks = 2, !.version = 2]
      /\ UNCHANGED <<db, writer, wal>>
  <2>1. tx.version >= 2 \/ tx.asks < 2
    BY <1>2
  <2>2. QED  BY <2>1 DEF AlterAsks, OpeningTo
<1>4. tx' \in Schema /\ Stamped(tx)' /\ tx'.version = Latest
  <2>1. CASE tx.version = 2
    BY <1>1, <1>3, <2>1 DEF Stamped, Latest
  <2>2. CASE tx.version = 1
    <3>1. tx' = [tx EXCEPT !.asks = 2, !.version = 2]
      BY <1>3, <2>2
    <3>2. tx' \in Schema /\ tx'.table = tx.table /\ tx'.version = 2 /\ tx'.asks = 2
      BY <1>1, <3>1, Altered
    <3>3. QED  BY <1>2, <3>2 DEF Stamped, Latest
  <2>3. QED  BY <1>2, <2>1, <2>2
<1>5. StoreTypeOK'
  BY <1>3, <1>4 DEF SchemaInv, StoreTypeOK, OpeningState
<1>6. OpenIsSound'
  BY <1>3 DEF SchemaInv, OpenIsSound, StoreTypeOK
<1>7. TransactionIsExclusive'
  BY <1>1, <1>3 DEF SchemaInv, TransactionIsExclusive, InTransaction, StoreTypeOK
<1>8. WorkIsStamped'
  <2>1. Stamped(db)' /\ tx'.version >= db'.version
    BY <1>3, <1>4 DEF SchemaInv, WorkIsStamped, Stamped, StoreTypeOK, Schema, Latest
  <2>2. opening'[writer'] = "commit"
    BY <1>1, <1>3 DEF SchemaInv, StoreTypeOK
  <2>3. QED  BY <1>4, <2>1, <2>2 DEF WorkIsStamped
<1>9. QED  BY <1>5, <1>6, <1>7, <1>8 DEF SchemaInv

LEMMA CommitSound ==
    ASSUME SchemaInv, NEW o \in Opener, CommitSchema(o)
    PROVE  SchemaInv'
<1> USE DEF SchemaInv, CommitSchema, OpeningTo
<1>1. writer = o /\ Stamped(tx) /\ tx \in Schema /\ tx.version = Latest
  BY OpenerAssumption DEF TransactionIsExclusive, InTransaction, WorkIsStamped, StoreTypeOK
<1>2. StoreTypeOK'
  BY <1>1 DEF StoreTypeOK, OpeningState
<1>3. OpenIsSound'
  BY <1>1 DEF OpenIsSound, StoreTypeOK, Stamped, Latest
<1>4. TransactionIsExclusive'
  BY <1>1, OpenerAssumption DEF TransactionIsExclusive, InTransaction, StoreTypeOK
<1>5. WorkIsStamped'
  BY <1>1 DEF WorkIsStamped, Stamped
<1>6. QED  BY <1>2, <1>3, <1>4, <1>5

\* Whoever goes away, dying or not, takes an open transaction with it.
LEMMA DisconnectSound ==
    ASSUME SchemaInv, NEW o \in Opener, Disconnect(o)
    PROVE  SchemaInv'
<1> USE DEF SchemaInv, Disconnect, OpeningTo
<1>1. StoreTypeOK'
  BY DEF StoreTypeOK, OpeningState
<1>2. OpenIsSound'
  BY DEF OpenIsSound, StoreTypeOK
<1>3. TransactionIsExclusive'
  BY OpenerAssumption DEF TransactionIsExclusive, InTransaction, StoreTypeOK
<1>4. WorkIsStamped'
  <2>1. CASE writer = o
    BY <2>1 DEF WorkIsStamped, Stamped
  <2>2. CASE writer # o
    BY <2>2 DEF WorkIsStamped, Stamped, StoreTypeOK
  <2>3. QED  BY <2>1, <2>2
<1>5. QED  BY <1>1, <1>2, <1>3, <1>4

LEMMA StoreStepSound == SchemaInv /\ [StoreNext]_storeVars => SchemaInv'
<1> SUFFICES ASSUME SchemaInv, [StoreNext]_storeVars PROVE SchemaInv'
  OBVIOUS
<1>1. CASE UNCHANGED storeVars
  BY <1>1 DEF storeVars, SchemaInv, StoreTypeOK, OpenIsSound, TransactionIsExclusive,
              WorkIsStamped, Stamped
<1>2. ASSUME NEW o \in Opener, Connect(o) \/ OpenStep(o) \/ GiveUpBusy(o) \/ Disconnect(o)
      PROVE  SchemaInv'
  BY <1>2, ConnectSound, EnableWalSound, ProbeSound, BeginSound, CreateSound, AlterSound,
     CommitSound, GiveUpSound, DisconnectSound DEF OpenStep
<1>3. QED  BY <1>1, <1>2 DEF StoreNext

\* What makes the opening of the store correct holds in every reachable state
\* (AskStore::open, migrate).
THEOREM SchemaInvariance == StoreSpec => []SchemaInv
<1>1. QED  BY StoreInitSound, StoreStepSound, PTL DEF StoreSpec

\* Whoever has the store open works on the latest schema, and no migration ever collides with
\* another or with what a dead process left (AskStore::open, migrate).
THEOREM OpeningIsSound == StoreSpec => []OpenIsSound
<1>1. SchemaInv => OpenIsSound
  BY DEF SchemaInv
<1>2. QED  BY <1>1, SchemaInvariance, PTL
===============================================================================
