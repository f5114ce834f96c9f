--------------------------- MODULE FencedRegister ---------------------------
(***************************************************************************)
(* What a revision-fenced state store promises its callers, without files, *)
(* locks or processes that die: one register, which a writer replaces only *)
(* if it still has the revision that the writer read; an answered write is *)
(* on stable storage, and no revision is answered twice.                   *)
(***************************************************************************)
EXTENDS Integers

CONSTANT Writers

VARIABLES reg,    \* the register everybody reads: its revision and its writer
          saved,  \* what the register is after a loss of power
          acked,  \* the last revision whose write was answered with success
          seen    \* per writer, the revision it holds

rvars == <<reg, saved, acked, seen>>

Nobody == "nobody"
Absent == -1                                   \* "the" revision of no state
Nothing == [rev |-> Absent, by |-> Nobody]

RInit == /\ reg = Nothing /\ saved = Nothing /\ acked = Absent
         /\ seen = [w \in Writers |-> Absent]

Read(w) == /\ seen' = [seen EXCEPT ![w] = reg.rev]
           /\ UNCHANGED <<reg, saved, acked>>

Commit(w) == /\ seen[w] = reg.rev
             /\ reg' = [rev |-> reg.rev + 1, by |-> w]
             /\ UNCHANGED <<saved, acked, seen>>

Persist == saved' = reg /\ UNCHANGED <<reg, acked, seen>>

\* The answer follows the writer's own commit, made from what it had read.
Answer(w) == /\ reg.by = w /\ reg.rev = seen[w] + 1 /\ saved = reg
             /\ acked < reg.rev /\ acked' = reg.rev
             /\ seen' = [seen EXCEPT ![w] = reg.rev]
             /\ UNCHANGED <<reg, saved>>

Forget(w) == /\ seen' = [seen EXCEPT ![w] = Absent]
             /\ UNCHANGED <<reg, saved, acked>>

PowerLoss == /\ reg' = saved /\ seen' = [w \in Writers |-> Absent]
             /\ UNCHANGED <<saved, acked>>

RNext == \/ \E w \in Writers : Read(w) \/ Commit(w) \/ Answer(w) \/ Forget(w)
         \/ Persist \/ PowerLoss

RSpec == RInit /\ [][RNext]_rvars
=============================================================================
