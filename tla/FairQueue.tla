------------------------------ MODULE FairQueue ------------------------------
(***************************************************************************)
(* The dispatcher's fair queue of one workload: round-robin across         *)
(* principals, FIFO within one, with the in-flight share of each principal.*)
(* Source: dispatcher.ex (new_fq, fq_enqueue, fq_take, share_cap), in      *)
(* control/lib/embervm.                                                    *)
(*                                                                         *)
(* A queue is a record: rotation, the principals in round-robin order, and *)
(* fifos, the tasks of each (an empty FIFO is a deleted map entry).        *)
(***************************************************************************)
EXTENDS Integers, Sequences, FiniteSets, Functions

CONSTANTS
  Principals,
  Cap,          \* the workload's cap on in-flight tasks
  FixedShare    \* max(1, trunc(cap * share_fraction)), or 0: no fraction set

ASSUME QueueAssumption ==
  /\ IsFiniteSet(Principals)
  /\ Cap \in Nat \ {0}
  /\ FixedShare \in Nat

NewFq == [rotation |-> <<>>, fifos |-> [p \in Principals |-> <<>>]]

\* members: the principals in rotation.
FqPrincipals(fq) == Range(fq.rotation)

FqEmpty(fq) == FqPrincipals(fq) = {}

\* Mutant: a principal joins the rotation once per task.
FqEnqueueAgain(fq, pr, t) ==
  [fifos |-> [fq.fifos EXCEPT ![pr] = Append(@, t)],
   rotation |-> Append(fq.rotation, pr)]

FqEnqueue(fq, pr, t) ==
  [fifos |-> [fq.fifos EXCEPT ![pr] = Append(@, t)],
   rotation |-> IF pr \in FqPrincipals(fq) THEN fq.rotation
                ELSE Append(fq.rotation, pr)]

\* The principals fq_take may serve: below their share and within quota.
Servable(fq, share, inflight_pr, blocked) ==
  {p \in FqPrincipals(fq) : inflight_pr[p] < share /\ p \notin blocked}

\* Mutant: a served principal keeps its place at the head of the rotation.
FqTakeSticky(fq, servable) ==
  LET i  == CHOOSE i \in DOMAIN fq.rotation :
              /\ fq.rotation[i] \in servable
              /\ \A j \in 1..(i - 1) : fq.rotation[j] \notin servable
      pr == fq.rotation[i]
  IN [task |-> Head(fq.fifos[pr]),
      pr |-> pr,
      fq |-> [fifos |-> [fq.fifos EXCEPT ![pr] = Tail(@)],
              rotation |-> (IF Tail(fq.fifos[pr]) = <<>> THEN <<>> ELSE <<pr>>)
                           \o SubSeq(fq.rotation, i + 1, Len(fq.rotation))
                           \o SubSeq(fq.rotation, 1, i - 1)]]

\* Mutant: a principal gives its newest task.
FqTakeNewest(fq, servable) ==
  LET i    == CHOOSE i \in DOMAIN fq.rotation :
                /\ fq.rotation[i] \in servable
                /\ \A j \in 1..(i - 1) : fq.rotation[j] \notin servable
      pr   == fq.rotation[i]
      last == Len(fq.fifos[pr])
      rest == SubSeq(fq.rotation, i + 1, Len(fq.rotation))
                \o SubSeq(fq.rotation, 1, i - 1)
  IN [task |-> fq.fifos[pr][last],
      pr |-> pr,
      fq |-> [fifos |-> [fq.fifos EXCEPT ![pr] = SubSeq(@, 1, last - 1)],
              rotation |-> IF last = 1 THEN rest ELSE Append(rest, pr)]]

\* fq_take, when some principal is servable: the first one in rotation order
\* gives its oldest task; those skipped before it, then itself if it has more,
\* go to the back.  With none servable a full turn leaves the queue as it was.
FqTake(fq, servable) ==
  LET i    == CHOOSE i \in DOMAIN fq.rotation :
                /\ fq.rotation[i] \in servable
                /\ \A j \in 1..(i - 1) : fq.rotation[j] \notin servable
      pr   == fq.rotation[i]
      rest == SubSeq(fq.rotation, i + 1, Len(fq.rotation))
                \o SubSeq(fq.rotation, 1, i - 1)
  IN [task |-> Head(fq.fifos[pr]),
      pr |-> pr,
      fq |-> [fifos |-> [fq.fifos EXCEPT ![pr] = Tail(@)],
              rotation |-> IF Tail(fq.fifos[pr]) = <<>> THEN rest
                           ELSE Append(rest, pr)]]

ActivePrincipals(fq, inflight_pr) ==
  FqPrincipals(fq) \cup {p \in Principals : inflight_pr[p] > 0}

\* share_cap, asked only while some principal is queued: a fixed share, or the cap
\* split evenly over the active principals, at least one.
ShareCap(fq, inflight_pr) ==
  IF FixedShare > 0 THEN FixedShare
  ELSE LET even == Cap \div Cardinality(ActivePrincipals(fq, inflight_pr))
       IN IF even > 1 THEN even ELSE 1

\* The rotation lists every principal with a waiting task, each once, and no
\* FIFO in the rotation is empty (the branch of fq_take that drops one is dead).
RotationMatchesFifos(fq) ==
  /\ \A i, j \in DOMAIN fq.rotation : fq.rotation[i] = fq.rotation[j] => i = j
  /\ FqPrincipals(fq) = {p \in Principals : fq.fifos[p] # <<>>}

\* Fair queues of tasks of W.
Queues(W) == [rotation : Seq(Principals), fifos : [Principals -> Seq(W)]]

\* A task is in a FIFO once.
Once(s) == \A j, k \in 1 .. Len(s) : s[j] = s[k] => j = k

=============================================================================
