--------------------------- MODULE ErasurePromise ---------------------------
(***************************************************************************)
(* What confirmed archive erasure promises, without its worker, tickets or *)
(* screens (session_history_delete_control.py, session_history_delete.py): *)
(* every erasure is granted by one explicit confirmation and sent at most  *)
(* once; it is reported as done only when Core did it; and while the last  *)
(* one is unsettled no other is granted, unless the owner's authority was  *)
(* withdrawn in between.                                                   *)
(***************************************************************************)
EXTENDS Naturals

CONSTANT MaxOps     \* confirmations in this instance

VARIABLES
    last,         \* operations granted so far; the last one is the one at stake
    sent,         \* operations handed to the network
    erased,       \* operations Core carried out
    void,         \* operations that were settled without being carried out
    reported,     \* operations the screen reported as done
    held,         \* no further operation may be granted
    withdrawals,  \* times the owner's authority was withdrawn ...
    grantedAt     \* ... as of the last grant

promise == <<last, sent, erased, void, reported, held, withdrawals, grantedAt>>

PromiseInit == /\ last = 0 /\ sent = {} /\ erased = {} /\ void = {} /\ reported = {}
               /\ held = FALSE /\ withdrawals = 0 /\ grantedAt = 0

Grant == /\ ~held /\ last < MaxOps
         /\ last' = last + 1 /\ held' = TRUE /\ grantedAt' = withdrawals
         /\ UNCHANGED <<sent, erased, void, reported, withdrawals>>

Send == /\ last # 0 /\ held /\ last \notin sent \cup void
        /\ sent' = sent \cup {last}
        /\ UNCHANGED <<last, erased, void, reported, held, withdrawals, grantedAt>>

Execute(o) == /\ o \in sent \ (erased \cup void)
              /\ erased' = erased \cup {o}
              /\ UNCHANGED <<last, sent, void, reported, held, withdrawals, grantedAt>>

\* Core refuses for good, or the worker gives up before it sent anything.
Refuse(o) == /\ o \in sent \cup ({last} \ {0}) /\ o \notin erased \cup void
             /\ void' = void \cup {o}
             /\ UNCHANGED <<last, sent, erased, reported, held, withdrawals, grantedAt>>

\* The last operation is settled and the next may be granted.
Report == /\ held /\ last \in erased
          /\ reported' = reported \cup {last} /\ held' = FALSE
          /\ UNCHANGED <<last, sent, erased, void, withdrawals, grantedAt>>
Settle == /\ held /\ last \in void
          /\ held' = FALSE
          /\ UNCHANGED <<last, sent, erased, void, reported, withdrawals, grantedAt>>

\* The owner's authority is withdrawn; an operation granted before may be forgotten.
Withdraw == /\ withdrawals' = withdrawals + 1
            /\ held' \in {held, FALSE}
            /\ UNCHANGED <<last, sent, erased, void, reported, grantedAt>>
Forget == /\ held /\ withdrawals # grantedAt
          /\ held' = FALSE
          /\ UNCHANGED <<last, sent, erased, void, reported, withdrawals, grantedAt>>

PromiseNext == \/ Grant \/ Send \/ Report \/ Settle \/ Withdraw \/ Forget
               \/ \E o \in 1..MaxOps : Execute(o) \/ Refuse(o)
PromiseSpec == PromiseInit /\ [][PromiseNext]_promise

-----------------------------------------------------------------------------
(* Consequences *)

PromiseType == /\ last \in Nat /\ sent \subseteq 1..last /\ withdrawals \in Nat
               /\ held \in BOOLEAN /\ grantedAt \in 0..withdrawals

\* Once the gate is open again under the authority of the grant, the operation is settled.
Settled == ~held /\ last # 0 /\ withdrawals = grantedAt => last \in reported \cup void

\* The screen never reports an erasure Core did not carry out, and what is settled as
\* not carried out stays so.
Honest == reported \subseteq erased /\ erased \cap void = {} /\ erased \subseteq sent

PromiseInv == PromiseType /\ Settled /\ Honest
=============================================================================
