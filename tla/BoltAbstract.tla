---------------------------- MODULE BoltAbstract ----------------------------
(***************************************************************************)
(* What a bbolt database promises its transactions, without pages, meta    *)
(* slots, freelists or I/O: committed versions form a sequence, each       *)
(* commit appending one; a read tx sees the newest committed version when  *)
(* it begins, and what it reads never changes while it is open.  Stopping  *)
(* the process closes every tx and loses no committed version.             *)
(***************************************************************************)
EXTENDS Naturals

CONSTANTS
    Readers,    \* read transactions
    MaxTxid,    \* the last txid
    NoTx        \* model value: no tx

VARIABLES
    latest,     \* txid of the newest committed version
    vals,       \* vals[t]: the contents of committed version t
    snap        \* snap[r]: the version r reads and what it reads, or NoTx

vars == <<latest, vals, snap>>

Txids == 0 .. MaxTxid

Init ==
    /\ latest = 1
    /\ vals = [t \in Txids |-> 0]
    /\ snap = [r \in Readers |-> NoTx]

\* A commit appends a version that either has new contents or keeps the
\* previous version's.
Commit ==
    /\ latest < MaxTxid
    /\ \E v \in {latest + 1, vals[latest]} :
          vals' = [vals EXCEPT ![latest + 1] = v]
    /\ latest' = latest + 1
    /\ UNCHANGED snap

BeginRead(r) ==
    /\ snap[r] = NoTx
    /\ snap' = [snap EXCEPT ![r] = [txid |-> latest, saw |-> vals[latest]]]
    /\ UNCHANGED <<latest, vals>>

EndRead(r) ==
    /\ snap[r] # NoTx
    /\ snap' = [snap EXCEPT ![r] = NoTx]
    /\ UNCHANGED <<latest, vals>>

Stop ==
    /\ snap' = [r \in Readers |-> NoTx]
    /\ UNCHANGED <<latest, vals>>

Next ==
    \/ Commit \/ Stop
    \/ \E r \in Readers : BeginRead(r) \/ EndRead(r)

Spec == Init /\ [][Next]_vars

=============================================================================
