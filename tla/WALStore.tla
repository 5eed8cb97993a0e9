------------------------------ MODULE WALStore ------------------------------
(***************************************************************************)
(* The write-ahead log of internal/edge/m5_local_store.go: a file of       *)
(* frames, the map and the order kept in memory, the recovery scan that    *)
(* rebuilds them, and the crashes it is there for.                         *)
(*                                                                         *)
(* A frame is the transaction id it carries and whether it is whole: its   *)
(* magic bytes, length and CRC32 agree.  A torn frame misleads the scan    *)
(* about where the next one starts, so nothing after it is read.  Every    *)
(* operation holds s.mu, so each is one action; a crash may come in the    *)
(* middle of an Append.  A client that retries a transaction sends the     *)
(* same payload, so the id stands for the payload and its hash; the frame  *)
(* sequence number, which nobody reads back, is left out.                  *)
(***************************************************************************)
EXTENDS Integers, Sequences, FiniteSets, SequencesExt, Transactions

CONSTANTS
  WriteFaults,   \* the system calls of Append that may fail
  MaxFrames      \* bound on the length of the file

ASSUME WriteFaultsAssumption ==
  WriteFaults \subseteq {"header", "payload", "sync"}
ASSUME MaxFramesAssumption == MaxFrames \in Nat

VARIABLES
  file,      \* the frames in the file, as the operating system shows them
  synced,    \* how many of them the last successful fsync made durable
  txMap,     \* s.txMap: the status of each transaction
  order,     \* s.order
  walOpen,   \* whether the process runs
  tornWrite, \* history: since the log was opened, a failed write tore a frame
  acked,     \* history: Append returned nil
  exposed    \* history: ... after such a write

walVars == <<file, synced, txMap, order, walOpen, tornWrite,
             acked, exposed>>

Statuses == {"PENDING", "RECONCILED", "DEFICIT", "DUPLICATE"}

Frame == [TxID : TxIDs, whole : BOOLEAN]

WALErrors == {"nil", "ErrTxAlreadyExists", "ErrWrite", "ErrSync"}

Absent == "absent"

Present == {tx \in TxIDs : txMap[tx] /= Absent}

WALInit ==
  /\ file = <<>>
  /\ synced = 0
  /\ txMap = [tx \in TxIDs |-> Absent]
  /\ order = <<>>
  /\ walOpen = TRUE
  /\ tornWrite = FALSE
  /\ acked = {}
  /\ exposed = {}

-----------------------------------------------------------------------------
Whole(tx) == [TxID |-> tx, whole |-> TRUE]
Torn(tx)  == [TxID |-> tx, whole |-> FALSE]

(* Both writes and the fsync succeed: every frame written so far is on     *)
(* disk.                                                                   *)
AppendDurably(tx) ==
  /\ file' = Append(file, Whole(tx))
  /\ synced' = Len(file')
  /\ txMap' = [txMap EXCEPT ![tx] = "PENDING"]
  /\ order' = Append(order, tx)
  /\ acked' = acked \cup {tx}
  /\ exposed' = IF tornWrite THEN exposed \cup {tx} ELSE exposed \ {tx}
  /\ UNCHANGED tornWrite

(* A write fails after some of the frame's bytes, perhaps none, are in the *)
(* file.  They stay there.                                                 *)
AppendTorn(tx) ==
  /\ \/ /\ "header" \in WriteFaults
        /\ UNCHANGED <<file, tornWrite>>
     \/ /\ {"header", "payload"} \cap WriteFaults /= {}
        /\ file' = Append(file, Torn(tx))
        /\ tornWrite' = TRUE
  /\ UNCHANGED <<synced, txMap, order, acked, exposed>>

(* The fsync fails: the frame is in the file, but not in the map.          *)
AppendUnsynced(tx) ==
  /\ "sync" \in WriteFaults
  /\ file' = Append(file, Whole(tx))
  /\ UNCHANGED <<synced, txMap, order, tornWrite, acked, exposed>>

WALAppend(tx, err) ==
  /\ walOpen
  /\ IF tx \in Present
     THEN /\ err = "ErrTxAlreadyExists"
          /\ UNCHANGED <<file, synced, txMap, order, tornWrite, acked,
                         exposed>>
     ELSE /\ Len(file) < MaxFrames
          /\ \/ err = "nil" /\ AppendDurably(tx)
             \/ err = "ErrWrite" /\ AppendTorn(tx)
             \/ err = "ErrSync" /\ AppendUnsynced(tx)
  /\ UNCHANGED walOpen

(* Mutant: the status is stored without looking the transaction up.        *)
UpdateStatusUnchecked(tx, status) ==
  /\ walOpen
  /\ txMap' = [txMap EXCEPT ![tx] = status]
  /\ UNCHANGED <<file, synced, order, walOpen, tornWrite, acked, exposed>>

UpdateStatus(tx, status) ==
  /\ walOpen
  /\ txMap' = IF tx \in Present THEN [txMap EXCEPT ![tx] = status] ELSE txMap
  /\ UNCHANGED <<file, synced, order, walOpen, tornWrite, acked, exposed>>

(* ReadAllPending, in insertion order: the k-th transaction it returns is  *)
(* the one at the k-th pending position.                                   *)
ReadAllPending ==
  LET pending == {i \in DOMAIN order : txMap[order[i]] = "PENDING"}
  IN  [k \in 1..Cardinality(pending) |->
         order[CHOOSE i \in pending :
                 Cardinality({j \in pending : j <= i}) = k]]

(***************************************************************************)
(* What a crash may leave of frames f of which n are durable: the durable  *)
(* ones and any number of the others, the last of them possibly torn.      *)
(***************************************************************************)
Remains(f, n) ==
  {SubSeq(f, 1, k) : k \in n..Len(f)}
    \cup {SubSeq(f, 1, k - 1) \o <<Torn(f[k].TxID)>> : k \in (n + 1)..Len(f)}

(* The process dies, between operations or while it appends tx; the map    *)
(* and the order go with it.                                               *)
CrashKeeping(f) ==
  /\ walOpen
  /\ file' \in Remains(f, synced)
  /\ synced' = Len(file')
  /\ walOpen' = FALSE
  /\ txMap' = [tx \in TxIDs |-> Absent]
  /\ order' = <<>>
  /\ UNCHANGED <<tornWrite, acked, exposed>>

Crash == CrashKeeping(file)

CrashDuringAppend(tx) ==
  /\ tx \notin Present
  /\ Len(file) < MaxFrames
  /\ CrashKeeping(Append(file, Whole(tx)))

(* The frames before the first torn one.                                   *)
ValidPrefix(f) ==
  SubSeq(f, 1, Max({n \in 0..Len(f) : \A i \in 1..n : f[i].whole}))

(* Mutant: the scan stops at a torn frame and leaves it in the file.       *)
RecoverWithoutTruncate(f) ==
  /\ file' = f
  /\ synced' = Len(f)
  /\ order' = [i \in DOMAIN ValidPrefix(f) |-> f[i].TxID]
  /\ txMap' = [tx \in TxIDs |->
                 IF \E i \in DOMAIN ValidPrefix(f) : f[i].TxID = tx
                 THEN "PENDING" ELSE Absent]
  /\ walOpen' = TRUE
  /\ tornWrite' = FALSE
  /\ UNCHANGED <<acked, exposed>>

(* Mutant: the map keeps the statuses of the process that died.            *)
RecoverWithStatus(f) ==
  /\ file' = ValidPrefix(f)
  /\ synced' = Len(file')
  /\ order' = [i \in DOMAIN file' |-> file'[i].TxID]
  /\ txMap' = [tx \in TxIDs |->
                 IF ~\E i \in DOMAIN file' : file'[i].TxID = tx THEN Absent
                 ELSE IF tx \in Present THEN txMap[tx] ELSE "PENDING"]
  /\ walOpen' = TRUE
  /\ tornWrite' = FALSE
  /\ UNCHANGED <<acked, exposed>>

(* NewWALStore on a file of frames f: recover reads the valid frames, with *)
(* the status they were appended with, and truncates the rest.             *)
RecoverFrom(f) ==
  /\ file' = ValidPrefix(f)
  /\ synced' = Len(file')
  /\ order' = [i \in DOMAIN file' |-> file'[i].TxID]
  /\ txMap' = [tx \in TxIDs |->
                 IF \E i \in DOMAIN file' : file'[i].TxID = tx
                 THEN "PENDING" ELSE Absent]
  /\ walOpen' = TRUE
  /\ tornWrite' = FALSE
  /\ UNCHANGED <<acked, exposed>>

Recover == ~walOpen /\ RecoverFrom(file)

WALNext ==
  \/ \E tx \in TxIDs, err \in WALErrors : WALAppend(tx, err)
  \/ \E tx \in TxIDs, status \in Statuses : UpdateStatus(tx, status)
  \/ Crash
  \/ \E tx \in TxIDs : CrashDuringAppend(tx)
  \/ Recover

WALSpec == WALInit /\ [][WALNext]_walVars

-----------------------------------------------------------------------------
(* Type invariant.                                                         *)
WALTypeOK ==
  /\ file \in Seq(Frame)
  /\ synced \in 0..Len(file)
  /\ txMap \in [TxIDs -> Statuses \cup {Absent}]
  /\ order \in Seq(TxIDs)
  /\ walOpen \in BOOLEAN
  /\ tornWrite \in BOOLEAN
  /\ acked \subseteq TxIDs
  /\ exposed \subseteq acked

(* The transaction is recovered from whatever a crash leaves now.          *)
SurvivesCrash(tx) ==
  \A f \in Remains(file, synced) :
    \E i \in DOMAIN ValidPrefix(f) : f[i].TxID = tx

(***************************************************************************)
(* Durability, whatever system calls fail and whenever the process dies:   *)
(* only a frame that a failed write tore before a transaction was          *)
(* acknowledged can cost that transaction.  Such a frame does: the file    *)
(* stays open behind it, and "Synchronous flush file.Sync() per write      *)
(* guarantees persistence" (docs/ARCHITECTURE.md:166) holds only up to it. *)
(***************************************************************************)
OnlyTornFramesLose == \A tx \in acked \ exposed : SurvivesCrash(tx)

(***************************************************************************)
(* The map answers for every acknowledged transaction while the process    *)
(* runs, so that a retried transaction is refused; and the order lists     *)
(* what the map holds, so that none is left out of a replay.               *)
(***************************************************************************)
MapKnowsAcknowledged ==
  walOpen => /\ acked \ exposed \subseteq Present
             /\ ToSet(order) = Present

=============================================================================
