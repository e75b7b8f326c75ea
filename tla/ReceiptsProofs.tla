---------------------------- MODULE ReceiptsProofs -----------------------------
(***************************************************************************)
(* What Receipts promises for every set of messages, processes and claims: *)
(* leases are fenced, acknowledgements follow the settlement, a processed  *)
(* message is final.                                                       *)
(***************************************************************************)
EXTENDS Receipts, TLAPS

\* The invariant of one row, with the tokens of its last claim and its settlement.
RowOK(r, l, s) ==
    /\ r \in Receipt
    /\ r.token # 0 => r.state \in {"claimed", "stale"}
    /\ r.state = "claimed" => r.token = l /\ l # 0
    /\ r.ack => r.state \in {"processed", "stale", "notified"}
    /\ r.state \in {"processed", "failed"} => s = l /\ s # 0

RowsOK == \A m \in Msgs : RowOK(rec[m], last[m], settled[m])

\* The types, with what the rows, their tokens and their settlements say of each other.
ReceiptsInv == TypeOK /\ RowsOK

LEMMA NoReceiptOK == NoReceipt \in Receipt /\ RowOK(NoReceipt, 0, 0)
  BY ReceiptsAssumption DEF NoReceipt, RowOK, Receipt, States, Tokens, Steps, MarkKinds

\* Changing fields one at a time keeps a row a row.
LEMMA RowFields ==
  ASSUME NEW r \in Receipt
  PROVE  /\ \A v \in States : [r EXCEPT !.state = v] \in Receipt
         /\ \A v \in Tokens : [r EXCEPT !.token = v] \in Receipt
         /\ \A v \in BOOLEAN : [r EXCEPT !.lapsed = v] \in Receipt
         /\ \A v \in BOOLEAN : [r EXCEPT !.ack = v] \in Receipt
         /\ \A v \in BOOLEAN : [r EXCEPT !.bound = v] \in Receipt
         /\ \A v \in Steps : [r EXCEPT !.step = v] \in Receipt
         /\ \A v \in SUBSET MarkKinds : [r EXCEPT !.marks = v] \in Receipt
  BY DEF Receipt

\* Settling a claim: the lease is given up and the state is final or failed.
LEMMA SettledOK ==
  ASSUME NEW r \in Receipt, NEW s \in States
  PROVE  LET q == [Released(r) EXCEPT !.state = s]
         IN  /\ q \in Receipt /\ q.state = s /\ q.token = 0 /\ q.ack = r.ack
             /\ [Released(r) EXCEPT !.state = s, !.ack = TRUE] = [q EXCEPT !.ack = TRUE]
             /\ [q EXCEPT !.ack = TRUE] \in Receipt
  <1> DEFINE q1 == [r EXCEPT !.token = 0]
             q2 == [q1 EXCEPT !.lapsed = FALSE]
             q3 == [q2 EXCEPT !.state = s]
  <1>1. Released(r) = q2  BY DEF Released
  <1>2. q1 \in Receipt  BY ReceiptsAssumption, RowFields DEF Tokens
  <1>3. q2 \in Receipt
    <2> HIDE DEF q1
    <2>. QED  BY <1>2, RowFields
  <1>4. q3 \in Receipt
    <2> HIDE DEF q2
    <2>. QED  BY <1>3, RowFields
  <1>5. q3.state = s /\ q3.token = 0 /\ q3.ack = r.ack  BY DEF Receipt
  <1>6. [q3 EXCEPT !.ack = TRUE] \in Receipt
    <2> HIDE DEF q3
    <2>. QED  BY <1>4, RowFields
  <1>7. [q2 EXCEPT !.state = s, !.ack = TRUE] = [q3 EXCEPT !.ack = TRUE]  OBVIOUS
  <1> HIDE DEF q1, q2
  <1>. QED  BY <1>1, <1>4, <1>5, <1>6, <1>7

\* Retiring a row, and giving its lease up, keep the invariant of the row.
LEMMA SupersededOK ==
  ASSUME NEW r, NEW l, NEW s, RowOK(r, l, s)
  PROVE  /\ RowOK(Superseded(r), l, s)
         /\ RowOK([Superseded(r) EXCEPT !.ack = TRUE], l, s)
  BY DEF Superseded, RowOK, Receipt, States

LEMMA RequeuedOK ==
  ASSUME NEW r, NEW l, NEW s, RowOK(r, l, s), r.state = "claimed"
  PROVE  RowOK([Released(r) EXCEPT !.state = "pending"], l, s)
  <1>1. r \in Receipt /\ ~r.ack  BY DEF RowOK
  <1>. QED  BY <1>1, SettledOK DEF RowOK, States

\* A row written back keeps the others.
LEMMA PutOK ==
  ASSUME RowsOK, rec \in [Msgs -> Receipt], NEW m \in Msgs, NEW r, Put(m, r),
         RowOK(r, last'[m], settled'[m]),
         \A n \in Msgs \ {m} : last'[n] = last[n] /\ settled'[n] = settled[n]
  PROVE  RowsOK' /\ rec' \in [Msgs -> Receipt]
  <1>1. rec' = [rec EXCEPT ![m] = r]  BY DEF Put
  <1>2. r \in Receipt  BY DEF RowOK
  <1>3. rec' \in [Msgs -> Receipt]  BY <1>1, <1>2
  <1>4. ASSUME NEW n \in Msgs PROVE RowOK(rec'[n], last'[n], settled'[n])
    <2>1. CASE n = m  BY <1>1, <2>1
    <2>2. CASE n # m
      <3>1. rec'[n] = rec[n]  BY <1>1, <2>2
      <3>2. last'[n] = last[n] /\ settled'[n] = settled[n]  BY <2>2
      <3>3. RowOK(rec[n], last[n], settled[n])  BY DEF RowsOK
      <3>. QED  BY <3>1, <3>2, <3>3
    <2>. QED  BY <2>1, <2>2
  <1>. QED  BY <1>3, <1>4 DEF RowsOK

LEMMA InvInit == Init => ReceiptsInv
  <1> SUFFICES ASSUME Init PROVE ReceiptsInv  OBVIOUS
  <1> USE ReceiptsAssumption
  <1>1. (CHOOSE m \in Msgs : TRUE) \in Msgs  OBVIOUS
  <1>2. 0 \in Tokens  BY DEF Tokens
  <1>3. TypeOK  BY <1>1, <1>2, NoReceiptOK DEF Init, TypeOK, NoReceipt, NoWatch, NoMarking, MarkKinds
  <1>4. RowsOK  BY NoReceiptOK DEF Init, RowsOK
  <1>. QED  BY <1>3, <1>4 DEF ReceiptsInv

\* What every action but a claim and a settlement leaves alone.
LEMMA RowStep ==
  ASSUME ReceiptsInv, NEW m \in Msgs, NEW r, Put(m, r), RowOK(r, last[m], settled[m]),
         UNCHANGED <<last, settled>>
  PROVE  RowsOK' /\ rec' \in [Msgs -> Receipt]
  BY PutOK DEF ReceiptsInv, TypeOK

\* The part of the type that is not about the rows.
Rest ==
    /\ participant \in { "working", "handling_interrupt", "pause_requested",
                         "resume_pending", "stopped", "closed" }
    /\ run \in {"active", "closed"}
    /\ lease \in [Agents -> [Msgs -> Tokens]]
    /\ watch \in [at : {"idle", "renew", "expire"}, rows : SUBSET Msgs, expired : SUBSET Msgs]
    /\ marking \in [op : MarkKinds \cup {"none", "clear"}, msg : Msgs, row : Receipt]
    /\ paneLive \in BOOLEAN /\ tokens \in Tokens
    /\ paused \subseteq Msgs
    /\ wired \in [Msgs -> MarkKinds \cup {"new"}]
    /\ last \in [Msgs -> Tokens] /\ settled \in [Msgs -> Tokens]

LEMMA InvSplit == ReceiptsInv <=> RowsOK /\ rec \in [Msgs -> Receipt] /\ Rest
  BY DEF ReceiptsInv, TypeOK, Rest, RowsOK, RowOK

LEMMA InvNext ==
  ASSUME RowsOK', rec' \in [Msgs -> Receipt], Rest' PROVE ReceiptsInv'
  BY DEF ReceiptsInv, TypeOK, Rest, RowsOK, RowOK

\* The actions of mail-recv.
LEMMA AgentStep ==
  ASSUME ReceiptsInv, NEW m \in Msgs, NEW a \in Agents,
         \/ Claim(a, m) \/ Complete(a, m) \/ Fail(a, m)
         \/ \E safe \in BOOLEAN : Checkpoint(a, m, safe)
  PROVE  ReceiptsInv'
  <1> USE ReceiptsAssumption
  <1>0. /\ RowsOK /\ rec \in [Msgs -> Receipt] /\ Rest
        /\ RowOK(rec[m], last[m], settled[m]) /\ rec[m] \in Receipt
    BY InvSplit DEF RowsOK
  <1>1. CASE Claim(a, m)
    <2> DEFINE k == tokens + 1
               q == Claimed(m, k)
    <2>1. k \in Tokens /\ k # 0  BY <1>0, <1>1 DEF Claim, Rest, Tokens
    <2>2. q \in Receipt /\ q.state = "claimed" /\ q.token = k /\ ~q.ack
      <3> HIDE DEF k
      <3> DEFINE s == IF rec[m].step = "null" THEN "safe" ELSE rec[m].step
                 q1 == [rec[m] EXCEPT !.state = "claimed"]
                 q2 == [q1 EXCEPT !.token = k]
                 q3 == [q2 EXCEPT !.lapsed = FALSE]
                 q4 == [q3 EXCEPT !.ack = FALSE]
                 q5 == [q4 EXCEPT !.bound = (run = "active")]
                 q6 == [q5 EXCEPT !.step = s]
      <3>1. q = q6  BY DEF Claimed
      <3>2. s \in Steps /\ "claimed" \in States  BY <1>0 DEF Steps, States, Receipt
      <3> HIDE DEF s, q
      <3>3. q1 \in Receipt  BY <1>0, <3>2, RowFields
      <3> HIDE DEF q1
      <3>4. q2 \in Receipt  BY <2>1, <3>3, RowFields
      <3> HIDE DEF q2
      <3>5. q3 \in Receipt  BY <3>4, RowFields
      <3> HIDE DEF q3
      <3>6. q4 \in Receipt  BY <3>5, RowFields
      <3> HIDE DEF q4
      <3>7. q5 \in Receipt  BY <3>6, RowFields
      <3> HIDE DEF q5
      <3>8. q6 \in Receipt  BY <3>2, <3>7, RowFields
      <3>9. q6.state = "claimed" /\ q6.token = k /\ ~q6.ack
        BY <1>0, <3>3, <3>4, <3>5, <3>6, <3>7 DEF q1, q2, q3, q4, q5, Receipt
      <3>. QED  BY <3>1, <3>8, <3>9
    <2>3. Put(m, q) /\ last' = [last EXCEPT ![m] = k] /\ settled' = settled
      BY <1>1 DEF Claim, vars
    <2>4. RowOK(q, last'[m], settled'[m])
      BY <1>0, <2>1, <2>2, <2>3 DEF RowOK, Rest
    <2>5. \A n \in Msgs \ {m} : last'[n] = last[n] /\ settled'[n] = settled[n]
      BY <1>0, <2>3 DEF Rest
    <2> HIDE DEF q, k
    <2>6. RowsOK' /\ rec' \in [Msgs -> Receipt]  BY <1>0, <2>3, <2>4, <2>5, PutOK
    <2>7. Rest'  BY <1>0, <1>1, <2>1 DEF Claim, Rest, wiring, k
    <2>. QED  BY <2>6, <2>7, InvNext
  <1>2. CASE Complete(a, m)
    <2> DEFINE q == [Released(rec[m]) EXCEPT !.state = "processed", !.ack = TRUE]
    <2>1. q \in Receipt /\ q.state = "processed" /\ q.token = 0
      <3> DEFINE p == [Released(rec[m]) EXCEPT !.state = "processed"]
      <3>1. "processed" \in States  BY DEF States
      <3>2. /\ p \in Receipt /\ p.state = "processed" /\ p.token = 0
            /\ q = [p EXCEPT !.ack = TRUE] /\ q \in Receipt
        BY <1>0, <3>1, SettledOK
      <3>. QED  BY <3>2 DEF Receipt
    <2>2. Put(m, q) /\ last' = last /\ settled' = [settled EXCEPT ![m] = lease[a][m]]
      BY <1>2 DEF Complete, claims
    <2>3. lease[a][m] = last[m] /\ last[m] # 0
      BY <1>0, <1>2 DEF Complete, Settles, HoldsLease, Held, RowOK
    <2>4. RowOK(q, last'[m], settled'[m])
      BY <1>0, <2>1, <2>2, <2>3 DEF RowOK, Rest
    <2>5. \A n \in Msgs \ {m} : last'[n] = last[n] /\ settled'[n] = settled[n]
      BY <1>0, <2>2 DEF Rest
    <2> HIDE DEF q
    <2>6. RowsOK' /\ rec' \in [Msgs -> Receipt]  BY <1>0, <2>2, <2>4, <2>5, PutOK
    <2>7. Rest'  BY <1>0, <1>2 DEF Complete, After, Rest, wiring, claims
    <2>. QED  BY <2>6, <2>7, InvNext
  <1>3. CASE Fail(a, m)
    <2> DEFINE q == [Released(rec[m]) EXCEPT !.state = "failed"]
    <2>1. q \in Receipt /\ q.state = "failed" /\ q.token = 0 /\ q.ack = rec[m].ack
      BY <1>0, SettledOK DEF States
    <2>2. Put(m, q) /\ last' = last /\ settled' = [settled EXCEPT ![m] = lease[a][m]]
      BY <1>3 DEF Fail, claims
    <2>3. lease[a][m] = last[m] /\ last[m] # 0 /\ ~rec[m].ack
      BY <1>0, <1>3 DEF Fail, Settles, HoldsLease, Held, RowOK
    <2>4. RowOK(q, last'[m], settled'[m])
      BY <1>0, <2>1, <2>2, <2>3 DEF RowOK, Rest
    <2>5. \A n \in Msgs \ {m} : last'[n] = last[n] /\ settled'[n] = settled[n]
      BY <1>0, <2>2 DEF Rest
    <2> HIDE DEF q
    <2>6. RowsOK' /\ rec' \in [Msgs -> Receipt]  BY <1>0, <2>2, <2>4, <2>5, PutOK
    <2>7. Rest'  BY <1>0, <1>3 DEF Fail, Rest, wiring, claims
    <2>. QED  BY <2>6, <2>7, InvNext
  <1>4. ASSUME NEW safe \in BOOLEAN, Checkpoint(a, m, safe) PROVE ReceiptsInv'
    <2> DEFINE q == [rec[m] EXCEPT !.step = IF safe THEN "safe" ELSE "uncertain"]
    <2>1. Put(m, q) /\ UNCHANGED <<last, settled>>  BY <1>4 DEF Checkpoint, claims
    <2>2. RowOK(q, last[m], settled[m])  BY <1>0 DEF RowOK, Receipt, Steps
    <2> HIDE DEF q
    <2>3. RowsOK' /\ rec' \in [Msgs -> Receipt]  BY <2>1, <2>2, RowStep
    <2>4. Rest'  BY <1>0, <1>4 DEF Checkpoint, Rest, wiring, claims
    <2>. QED  BY <2>3, <2>4, InvNext
  <1>. QED  BY <1>1, <1>2, <1>3, <1>4

\* A stale claim: the lease is given up, the row is flagged and bound.
LEMMA StaleOK ==
  ASSUME NEW r, NEW l, NEW s, RowOK(r, l, s), NEW b \in BOOLEAN, NEW st \in Steps
  PROVE  RowOK([Released(r) EXCEPT !.state = "stale", !.ack = TRUE, !.bound = b,
                                   !.step = st], l, s)
  <1> DEFINE p == [Released(r) EXCEPT !.state = "stale"]
             q1 == [p EXCEPT !.ack = TRUE]
             q2 == [q1 EXCEPT !.bound = b]
             q3 == [q2 EXCEPT !.step = st]
  <1>1. p \in Receipt /\ p.state = "stale" /\ p.token = 0 /\ q1 \in Receipt
    BY SettledOK DEF RowOK, States
  <1>2. [Released(r) EXCEPT !.state = "stale", !.ack = TRUE, !.bound = b, !.step = st] = q3
    OBVIOUS
  <1>3. q1.state = "stale" /\ q1.token = 0  BY <1>1 DEF Receipt
  <1>4. q2 \in Receipt /\ q2.state = "stale" /\ q2.token = 0
    <2> HIDE DEF q1
    <2>. QED  BY <1>1, <1>3, RowFields DEF Receipt
  <1>5. q3 \in Receipt /\ q3.state = "stale" /\ q3.token = 0
    <2> HIDE DEF q2
    <2>. QED  BY <1>4, RowFields DEF Receipt
  <1> HIDE DEF q3
  <1>. QED  BY <1>2, <1>5 DEF RowOK

\* A pause request: a new row waits, and the checkpoint is replaced.
LEMMA PausedOK ==
  ASSUME NEW r, NEW l, NEW s, RowOK(r, l, s), NEW b \in BOOLEAN, NEW st \in Steps
  PROVE  RowOK([r EXCEPT !.state = IF @ = "none" THEN "pending" ELSE @, !.bound = b,
                         !.step = st, !.marks = {}], l, s)
  <1> DEFINE v == IF r.state = "none" THEN "pending" ELSE r.state
             q0 == [r EXCEPT !.state = v]
             q1 == [q0 EXCEPT !.bound = b]
             q2 == [q1 EXCEPT !.step = st]
             q3 == [q2 EXCEPT !.marks = {}]
  <1>0. r \in Receipt /\ v \in States  BY DEF RowOK, Receipt, States
  <1>1. q0 \in Receipt /\ q0.state = v /\ q0.token = r.token /\ q0.ack = r.ack
    <2> HIDE DEF v
    <2>. QED  BY <1>0, RowFields DEF Receipt
  <1>2. q1 \in Receipt /\ q1.state = v /\ q1.token = r.token /\ q1.ack = r.ack
    <2> HIDE DEF q0, v
    <2>. QED  BY <1>1, RowFields DEF Receipt
  <1>3. q2 \in Receipt /\ q2.state = v /\ q2.token = r.token /\ q2.ack = r.ack
    <2> HIDE DEF q1, v
    <2>. QED  BY <1>2, RowFields DEF Receipt
  <1>4. q3 \in Receipt /\ q3.state = v /\ q3.token = r.token /\ q3.ack = r.ack
    <2> HIDE DEF q2, v
    <2>. QED  BY <1>3, RowFields DEF Receipt
  <1>5. [r EXCEPT !.state = IF @ = "none" THEN "pending" ELSE @, !.bound = b,
                  !.step = st, !.marks = {}] = q3
    OBVIOUS
  <1>6. RowOK(q3, l, s)
    <2> HIDE DEF q3
    <2>. QED  BY <1>4 DEF RowOK
  <1> HIDE DEF q3
  <1>. QED  BY <1>5, <1>6

\* The actions that write one row and leave its claims alone.
LEMMA RowActions ==
  ASSUME ReceiptsInv, NEW m \in Msgs,
         \/ Observe(m) \/ ClaimRejected(m) \/ ClaimStale(m) \/ Resume(m)
         \/ MarkAcked(m) \/ Dismiss(m) \/ Lapse(m)
         \/ \E hard \in BOOLEAN : RequestPause(m, hard)
  PROVE  ReceiptsInv'
  <1>0. /\ RowsOK /\ rec \in [Msgs -> Receipt] /\ Rest
        /\ RowOK(rec[m], last[m], settled[m]) /\ rec[m] \in Receipt
    BY InvSplit DEF RowsOK
  <1>1. CASE Observe(m)
    <2>1. Put(m, Superseded(rec[m])) /\ UNCHANGED <<last, settled>>
      BY <1>1 DEF Observe, claims
    <2>2. RowsOK' /\ rec' \in [Msgs -> Receipt]  BY <1>0, <2>1, RowStep, SupersededOK
    <2>3. Rest'  BY <1>0, <1>1 DEF Observe, Rest, wiring, claims
    <2>. QED  BY <2>2, <2>3, InvNext
  <1>2. CASE ClaimRejected(m)
    <2> DEFINE q == [rec[m] EXCEPT !.state = "stale", !.ack = @ \/ rec[m].state = "none"]
    <2>1. Put(m, q) /\ UNCHANGED <<last, settled>>  BY <1>2 DEF ClaimRejected, claims
    <2>2. RowOK(q, last[m], settled[m])  BY <1>0 DEF RowOK, Receipt, States
    <2> HIDE DEF q
    <2>3. RowsOK' /\ rec' \in [Msgs -> Receipt]  BY <2>1, <2>2, RowStep
    <2>4. Rest'  BY <1>0, <1>2 DEF ClaimRejected, Rest, wiring, claims
    <2>. QED  BY <2>3, <2>4, InvNext
  <1>3. CASE ClaimStale(m)
    <2> DEFINE b == rec[m].bound \/ m \in Interrupts \/ run = "active"
               st == IF rec[m].step = "null" THEN "safe" ELSE rec[m].step
               q == [Released(rec[m]) EXCEPT !.state = "stale", !.ack = TRUE, !.bound = b,
                                             !.step = st]
    <2>1. Put(m, q) /\ UNCHANGED <<last, settled>>
      BY <1>0, <1>3 DEF ClaimStale, claims, Released, Receipt
    <2>2. b \in BOOLEAN /\ st \in Steps  BY <1>0 DEF Receipt, Steps
    <2> HIDE DEF b, st
    <2>3. RowOK(q, last[m], settled[m])  BY <1>0, <2>2, StaleOK
    <2> HIDE DEF q
    <2>4. RowsOK' /\ rec' \in [Msgs -> Receipt]  BY <2>1, <2>3, RowStep
    <2>5. Rest'  BY <1>0, <1>3 DEF ClaimStale, Rest, wiring, claims
    <2>. QED  BY <2>4, <2>5, InvNext
  <1>4. CASE Resume(m)
    <2>1. UNCHANGED <<rec, last, settled>>  BY <1>4 DEF Resume, claims
    <2>2. RowsOK'  BY <1>0, <2>1 DEF RowsOK
    <2>3. Rest'  BY <1>0, <1>4 DEF Resume, Rest, wiring, claims
    <2>. QED  BY <1>0, <2>1, <2>2, <2>3, InvNext
  <1>5. CASE MarkAcked(m)
    <2> DEFINE q == [rec[m] EXCEPT !.ack = FALSE]
    <2>1. Put(m, q) /\ UNCHANGED <<last, settled>>  BY <1>5 DEF MarkAcked, claims
    <2>2. RowOK(q, last[m], settled[m])  BY <1>0 DEF RowOK, Receipt
    <2> HIDE DEF q
    <2>3. RowsOK' /\ rec' \in [Msgs -> Receipt]  BY <2>1, <2>2, RowStep
    <2>4. Rest'  BY <1>0, <1>5 DEF MarkAcked, Rest, wiring, claims
    <2>. QED  BY <2>3, <2>4, InvNext
  <1>6. CASE Dismiss(m)
    <2>1. Put(m, [Superseded(rec[m]) EXCEPT !.ack = TRUE]) /\ UNCHANGED <<last, settled>>
      BY <1>6 DEF Dismiss, claims
    <2>2. RowsOK' /\ rec' \in [Msgs -> Receipt]  BY <1>0, <2>1, RowStep, SupersededOK
    <2>3. Rest'  BY <1>0, <1>6 DEF Dismiss, Rest, wiring, claims
    <2>. QED  BY <2>2, <2>3, InvNext
  <1>7. CASE Lapse(m)
    <2> DEFINE q == [rec[m] EXCEPT !.lapsed = TRUE]
    <2>1. Put(m, q) /\ UNCHANGED <<last, settled>>  BY <1>7 DEF Lapse, claims
    <2>2. RowOK(q, last[m], settled[m])  BY <1>0 DEF RowOK, Receipt
    <2> HIDE DEF q
    <2>3. RowsOK' /\ rec' \in [Msgs -> Receipt]  BY <2>1, <2>2, RowStep
    <2>4. Rest'  BY <1>0, <1>7 DEF Lapse, Rest, wiring, claims
    <2>. QED  BY <2>3, <2>4, InvNext
  <1>8. ASSUME NEW hard \in BOOLEAN, RequestPause(m, hard) PROVE ReceiptsInv'
    <2> DEFINE b == rec[m].bound \/ rec[m].state = "none"
               st == IF hard THEN "uncertain" ELSE "safe"
               q == [rec[m] EXCEPT !.state = IF @ = "none" THEN "pending" ELSE @,
                                   !.bound = b, !.step = st, !.marks = {}]
    <2>1. Put(m, q) /\ UNCHANGED <<last, settled>>
      BY <1>0, <1>8 DEF RequestPause, claims, Receipt
    <2>2. b \in BOOLEAN /\ st \in Steps  BY <1>0 DEF Receipt, Steps
    <2> HIDE DEF b, st
    <2>3. RowOK(q, last[m], settled[m])  BY <1>0, <2>2, PausedOK
    <2> HIDE DEF q
    <2>4. RowsOK' /\ rec' \in [Msgs -> Receipt]  BY <2>1, <2>3, RowStep
    <2>5. Rest'  BY <1>0, <1>8 DEF RequestPause, Rest, wiring, claims
    <2>. QED  BY <2>4, <2>5, InvNext
  <1>. QED  BY <1>1, <1>2, <1>3, <1>4, <1>5, <1>6, <1>7, <1>8

\* A prompt mark written into an existing row, and into a new one.
LEMMA MarkedOK ==
  ASSUME NEW r, NEW l, NEW s, RowOK(r, l, s), NEW k \in SUBSET MarkKinds, NEW st \in Steps
  PROVE  /\ RowOK([r EXCEPT !.step = st, !.marks = k], l, s)
         /\ r.state = "none" =>
              RowOK([r EXCEPT !.state = "notified", !.ack = TRUE, !.step = st, !.marks = k], l, s)
  <1>0. r \in Receipt  BY DEF RowOK
  <1>1. RowOK([r EXCEPT !.step = st, !.marks = k], l, s)
    <2> DEFINE q1 == [r EXCEPT !.step = st]
               q2 == [q1 EXCEPT !.marks = k]
    <2>1. q1 \in Receipt /\ q1.state = r.state /\ q1.token = r.token /\ q1.ack = r.ack
      BY <1>0, RowFields DEF Receipt
    <2>2. q2 \in Receipt /\ q2.state = r.state /\ q2.token = r.token /\ q2.ack = r.ack
      <3> HIDE DEF q1
      <3>. QED  BY <2>1, RowFields DEF Receipt
    <2>3. RowOK(q2, l, s)
      <3> HIDE DEF q2
      <3>. QED  BY <2>2 DEF RowOK
    <2>4. [r EXCEPT !.step = st, !.marks = k] = q2  OBVIOUS
    <2> HIDE DEF q2
    <2>. QED  BY <2>3, <2>4
  <1>2. ASSUME r.state = "none"
        PROVE  RowOK([r EXCEPT !.state = "notified", !.ack = TRUE, !.step = st,
                               !.marks = k], l, s)
    <2> DEFINE q1 == [r EXCEPT !.state = "notified"]
               q2 == [q1 EXCEPT !.ack = TRUE]
               q3 == [q2 EXCEPT !.step = st]
               q4 == [q3 EXCEPT !.marks = k]
    <2>0. r.token = 0  BY <1>2 DEF RowOK
    <2>1. q1 \in Receipt /\ q1.state = "notified" /\ q1.token = 0
      <3>1. "notified" \in States  BY DEF States
      <3>2. q1 \in Receipt  BY <1>0, <3>1, RowFields
      <3>3. q1.state = "notified" /\ q1.token = r.token  BY <1>0 DEF Receipt
      <3>. QED  BY <2>0, <3>2, <3>3
    <2>2. q2 \in Receipt /\ q2.state = "notified" /\ q2.token = 0
      <3> HIDE DEF q1
      <3>. QED  BY <2>1, RowFields DEF Receipt
    <2>3. q3 \in Receipt /\ q3.state = "notified" /\ q3.token = 0
      <3> HIDE DEF q2
      <3>. QED  BY <2>2, RowFields DEF Receipt
    <2>4. q4 \in Receipt /\ q4.state = "notified" /\ q4.token = 0
      <3> HIDE DEF q3
      <3>. QED  BY <2>3, RowFields DEF Receipt
    <2>5. RowOK(q4, l, s)
      <3> HIDE DEF q4
      <3>. QED  BY <2>4 DEF RowOK
    <2>6. [r EXCEPT !.state = "notified", !.ack = TRUE, !.step = st, !.marks = k] = q4
      OBVIOUS
    <2> HIDE DEF q4
    <2>. QED  BY <2>5, <2>6
  <1>. QED  BY <1>1, <1>2

\* The prompt marks.
LEMMA MarkStep == ASSUME ReceiptsInv, MarkWrite PROVE ReceiptsInv'
  <1> DEFINE m == marking.msg
             r == marking.row
             marks == IF marking.op = "clear" THEN r.marks \ {"attempt"}
                      ELSE r.marks \cup {marking.op}
             step == IF r.step = "null" THEN "none" ELSE r.step
             fails == r.state = "none" /\ rec[m].state # "none"
             nothing == marking.op = "clear" /\ "attempt" \notin r.marks
             insert == [rec[m] EXCEPT !.state = "notified", !.ack = TRUE,
                                      !.step = "none", !.marks = marks]
             update == [rec[m] EXCEPT !.step = step, !.marks = marks]
  <1>1. RowsOK /\ rec \in [Msgs -> Receipt] /\ Rest  BY InvSplit
  <1>2. m \in Msgs /\ r \in Receipt /\ marking.op \in MarkKinds \cup {"clear"}
    BY <1>1 DEF Rest, MarkWrite
  <1>3. RowOK(rec[m], last[m], settled[m])  BY <1>1, <1>2 DEF RowsOK
  <1>4. marks \in SUBSET MarkKinds /\ step \in Steps /\ "none" \in Steps
    BY <1>2 DEF Receipt, Steps, MarkKinds
  <1>5. UNCHANGED <<last, settled>>  BY DEF MarkWrite, claims
  <1>6. \/ UNCHANGED rec
        \/ Put(m, insert) /\ rec[m].state = "none"
        \/ Put(m, update)
    BY DEF MarkWrite
  <1>7. wired' \in [Msgs -> MarkKinds \cup {"new"}]
    <2>1. wired' = wired \/ \E k \in MarkKinds \cup {"new"} : wired' = [wired EXCEPT ![m] = k]
      BY <1>2 DEF MarkWrite
    <2>. QED  BY <1>1, <1>2, <2>1 DEF Rest
  <1>8. NoMarking \in [op : MarkKinds \cup {"none", "clear"}, msg : Msgs, row : Receipt]
    <2>1. (CHOOSE n \in Msgs : TRUE) \in Msgs  BY ReceiptsAssumption
    <2>. QED  BY <2>1, NoReceiptOK DEF NoMarking
  <1>9. Rest'
    BY <1>1, <1>7, <1>8 DEF MarkWrite, Rest, claims
  <1> HIDE DEF step, marks
  <1>10. RowOK(update, last[m], settled[m])  BY <1>3, <1>4, MarkedOK
  <1>11. rec[m].state = "none" => RowOK(insert, last[m], settled[m])
    BY <1>3, <1>4, MarkedOK
  <1> HIDE DEF insert, update, m
  <1>12. RowsOK' /\ rec' \in [Msgs -> Receipt]
    <2>1. CASE UNCHANGED rec  BY <1>1, <1>5, <2>1 DEF RowsOK
    <2>2. CASE Put(m, insert) /\ rec[m].state = "none"
      BY <1>2, <1>5, <1>11, <2>2, RowStep
    <2>3. CASE Put(m, update)  BY <1>2, <1>5, <1>10, <2>3, RowStep
    <2>. QED  BY <1>6, <2>1, <2>2, <2>3
  <1>. QED  BY <1>9, <1>12, InvNext

\* The watcher takes expired claims back, of whatever rows.
LEMMA RequeuedRows ==
  ASSUME NEW rows \in [Msgs -> Receipt], Rest,
         \A m \in Msgs : RowOK(rows[m], last[m], settled[m])
  PROVE  /\ Requeued(rows) \in [Msgs -> Receipt]
         /\ \A m \in Msgs : RowOK(Requeued(rows)[m], last[m], settled[m])
  <1>1. ASSUME NEW m \in Msgs PROVE RowOK(Requeued(rows)[m], last[m], settled[m])
    <2>1. CASE m \in Expired(rows)
      BY <2>1, RequeuedOK DEF Requeued, Expired
    <2>2. CASE m \notin Expired(rows)  BY <2>2 DEF Requeued
    <2>. QED  BY <2>1, <2>2
  <1>2. \A m \in Msgs : Requeued(rows)[m] \in Receipt  BY <1>1 DEF RowOK
  <1>. QED  BY <1>1, <1>2 DEF Requeued

LEMMA ResumedType ==
  ASSUME Rest, NEW expired, NEW rows
  PROVE  Resumed(expired, rows) \in { "working", "handling_interrupt", "pause_requested",
                                     "resume_pending", "stopped", "closed" }
  BY DEF Resumed, Rest

LEMMA WatchStep == ASSUME ReceiptsInv, Watch PROVE ReceiptsInv'
  <1>1. RowsOK /\ rec \in [Msgs -> Receipt] /\ Rest  BY InvSplit
  <1>2. NoWatch \in [at : {"idle", "renew", "expire"}, rows : SUBSET Msgs, expired : SUBSET Msgs]
    BY DEF NoWatch
  <1>3. CASE WatchRead
    <2>1. UNCHANGED <<rec, last, settled>>  BY <1>3 DEF WatchRead, claims
    <2>2. RowsOK'  BY <1>1, <2>1 DEF RowsOK
    <2>3. Rest'  BY <1>1, <1>3 DEF WatchRead, NoWatch, Rest, wiring, claims
    <2>. QED  BY <1>1, <2>1, <2>2, <2>3, InvNext
  <1>4. CASE WatchExpire
    <2>1. rec' = Requeued(rec) /\ UNCHANGED <<last, settled>>  BY <1>4 DEF WatchExpire, claims
    <2>2. RowsOK' /\ rec' \in [Msgs -> Receipt]  BY <1>1, <2>1, RequeuedRows DEF RowsOK
    <2>3. Rest'  BY <1>1, <1>2, <1>4, ResumedType DEF WatchExpire, Rest, wiring, claims
    <2>. QED  BY <2>2, <2>3, InvNext
  <1>5. CASE WatchRenew
    <2> DEFINE rows == [m \in Msgs |-> IF m \in watch.rows /\ rec[m].state = "claimed"
                                   THEN [rec[m] EXCEPT !.lapsed = FALSE] ELSE rec[m]]
    <2>1. UNCHANGED <<last, settled>>  BY <1>5 DEF WatchRenew, claims
    <2>2. \A m \in Msgs : RowOK(rows[m], last[m], settled[m])
      <3> TAKE m \in Msgs
      <3>1. RowOK(rec[m], last[m], settled[m])  BY <1>1 DEF RowsOK
      <3>2. RowOK([rec[m] EXCEPT !.lapsed = FALSE], last[m], settled[m])
        BY <3>1 DEF RowOK, Receipt
      <3>. QED  BY <3>1, <3>2
    <2>3. rows \in [Msgs -> Receipt]  BY <2>2 DEF RowOK
    <2>4. CASE watch.rows # {}
      <3>1. /\ rec' = Requeued(rows)
            /\ participant' = Resumed(Expired(rows), rows)
            /\ watch' = NoWatch
        BY <1>5, <2>4 DEF WatchRenew
      <3> HIDE DEF rows
      <3>2. RowsOK' /\ rec' \in [Msgs -> Receipt]
        BY <1>1, <2>1, <2>2, <2>3, <3>1, RequeuedRows DEF RowsOK
      <3>3. Rest'
        BY <1>1, <1>2, <1>5, <3>1, ResumedType DEF WatchRenew, Rest, wiring, claims
      <3>. QED  BY <3>2, <3>3, InvNext
    <2>5. CASE watch.rows = {}
      <3>1. /\ watch' = [NoWatch EXCEPT !.at = "expire", !.expired = Expired(rec)]
            /\ UNCHANGED <<rec, participant>>
        BY <1>5, <2>5 DEF WatchRenew
      <3>2. RowsOK'  BY <1>1, <2>1, <3>1 DEF RowsOK
      <3>3. Expired(rec) \subseteq Msgs  BY DEF Expired
      <3>4. watch' \in [at : {"idle", "renew", "expire"}, rows : SUBSET Msgs, expired : SUBSET Msgs]
        BY <3>1, <3>3 DEF NoWatch
      <3>5. Rest'  BY <1>1, <1>5, <3>1, <3>4 DEF WatchRenew, Rest, wiring, claims
      <3>. QED  BY <1>1, <3>1, <3>2, <3>5, InvNext
    <2>. QED  BY <2>4, <2>5
  <1>. QED  BY <1>3, <1>4, <1>5 DEF Watch

LEMMA InvStep == ReceiptsInv /\ [Next]_vars => ReceiptsInv'
  <1> SUFFICES ASSUME ReceiptsInv, [Next]_vars PROVE ReceiptsInv'  OBVIOUS
  <1>0. RowsOK /\ rec \in [Msgs -> Receipt] /\ Rest  BY InvSplit
  <1>1. ASSUME NEW a \in Agents, NEW m \in Msgs, Claim(a, m) \/ Complete(a, m) \/ Fail(a, m)
        PROVE  ReceiptsInv'
    BY <1>1, AgentStep
  <1>2. ASSUME NEW a \in Agents, NEW m \in Msgs, NEW safe \in BOOLEAN, Checkpoint(a, m, safe)
        PROVE  ReceiptsInv'
    BY <1>2, AgentStep
  <1>3. ASSUME NEW m \in Msgs,
               \/ Observe(m) \/ ClaimRejected(m) \/ ClaimStale(m) \/ Resume(m)
               \/ MarkAcked(m) \/ Dismiss(m) \/ Lapse(m)
        PROVE  ReceiptsInv'
    BY <1>3, RowActions
  <1>4. ASSUME NEW m \in Msgs, NEW hard \in BOOLEAN, RequestPause(m, hard)
        PROVE  ReceiptsInv'
    BY <1>4, RowActions
  <1>5. ASSUME NEW op \in MarkKinds \cup {"clear"}, NEW m \in Msgs, MarkRead(op, m)
        PROVE  ReceiptsInv'
    <2>1. UNCHANGED <<rec, last, settled>>  BY <1>5 DEF MarkRead, claims
    <2>2. RowsOK'  BY <1>0, <2>1 DEF RowsOK
    <2>3. Rest'  BY <1>0, <1>5 DEF MarkRead, Rest, claims
    <2>. QED  BY <1>0, <2>1, <2>2, <2>3, InvNext
  <1>6. CASE CloseSession
    <2>1. UNCHANGED <<rec, last, settled>>  BY <1>6 DEF CloseSession, claims
    <2>2. RowsOK'  BY <1>0, <2>1 DEF RowsOK
    <2>3. Rest'  BY <1>0, <1>6 DEF CloseSession, Rest, wiring, claims
    <2>. QED  BY <1>0, <2>1, <2>2, <2>3, InvNext
  <1>7. CASE PaneEnds
    <2>1. UNCHANGED <<rec, last, settled>>  BY <1>7 DEF PaneEnds, claims
    <2>2. RowsOK'  BY <1>0, <2>1 DEF RowsOK
    <2>3. Rest'  BY <1>0, <1>7 DEF PaneEnds, Rest, wiring, claims
    <2>. QED  BY <1>0, <2>1, <2>2, <2>3, InvNext
  <1>8. CASE UNCHANGED vars
    <2>1. UNCHANGED <<rec, last, settled>>  BY <1>8 DEF vars, claims
    <2>2. RowsOK'  BY <1>0, <2>1 DEF RowsOK
    <2>3. Rest'  BY <1>0, <1>8 DEF vars, Rest, wiring, claims
    <2>. QED  BY <1>0, <2>1, <2>2, <2>3, InvNext
  <1>. QED
    BY <1>1, <1>2, <1>3, <1>4, <1>5, <1>6, <1>7, <1>8, MarkStep, WatchStep DEF Next, Step

\* The receipts keep their types, and no row that is somebody's work keeps a flag or a
\* settlement of an earlier life, in every reachable state.
THEOREM InvCorrect == Spec => []ReceiptsInv
  BY InvInit, InvStep, PTL DEF Spec

\* mail-recv never acknowledges to the Hub, on the word of the receipt, a message that
\* somebody works on or may still claim (the ack_pending flag of receipts); and however many
\* claims of a message lapse and are granted again, complete_message and fail_message
\* succeed only under the token of the last one.
THEOREM ReceiptsAreSafe == Spec => []ReceiptsSafe
  <1>1. ReceiptsInv => AckIsSettled
    BY DEF ReceiptsInv, RowsOK, RowOK, AckIsSettled
  <1>2. ReceiptsInv => FencedSettlement
    BY DEF ReceiptsInv, RowsOK, RowOK, FencedSettlement
  <1>3. ReceiptsInv /\ KindsOK => ReceiptsSafe
    BY <1>1, <1>2 DEF ReceiptsInv, ReceiptsSafe
  <1>4. Init => KindsOK  BY DEF Init, KindsOK
  <1>5. KindsOK /\ [Next]_vars => KindsOK'  BY DEF KindsOK, Next, vars
  <1>. QED  BY <1>3, <1>4, <1>5, InvCorrect, PTL DEF Spec

\* What one step does to a processed row.
LEMMA ProcessedStep ==
  ASSUME ReceiptsInv, [Next]_vars, NEW m \in Msgs, rec[m].state = "processed"
  PROVE  rec'[m].state = "processed" /\ last'[m] = last[m]
  <1> DEFINE Kept == rec'[m].state = "processed" /\ last'[m] = last[m]
  <1>0. rec \in [Msgs -> Receipt] /\ Rest  BY InvSplit
  <1>1. ASSUME NEW n \in Msgs, NEW r, Put(n, r), UNCHANGED last,
               n = m => r.state = "processed"
        PROVE  Kept
    BY <1>0, <1>1 DEF Put
  <1>2. ASSUME NEW a \in Agents, NEW n \in Msgs, Claim(a, n)  PROVE Kept
    <2>1. n # m  BY <1>2 DEF Claim, Claimable, Final
    <2>. QED  BY <1>0, <1>2, <2>1 DEF Claim, Put, Rest
  <1>3. ASSUME NEW a \in Agents, NEW n \in Msgs, Complete(a, n) \/ Fail(a, n)  PROVE Kept
    <2>1. n # m  BY <1>3 DEF Complete, Fail, Settles, HoldsLease, Held
    <2>2. UNCHANGED last /\ \E r : Put(n, r)  BY <1>3 DEF Complete, Fail, claims
    <2>. QED  BY <1>1, <2>1, <2>2
  <1>4. ASSUME NEW a \in Agents, NEW n \in Msgs, NEW safe \in BOOLEAN, Checkpoint(a, n, safe)
        PROVE  Kept
    <2>1. /\ Put(n, [rec[n] EXCEPT !.step = IF safe THEN "safe" ELSE "uncertain"])
          /\ UNCHANGED last
      BY <1>4 DEF Checkpoint, claims
    <2>2. n = m => [rec[n] EXCEPT !.step = IF safe THEN "safe" ELSE "uncertain"].state
                     = "processed"
      BY <1>0 DEF Receipt
    <2>. QED  BY <1>1, <2>1, <2>2
  <1>5. ASSUME NEW n \in Msgs, Observe(n) \/ Dismiss(n)  PROVE Kept
    <2>1. UNCHANGED last  BY <1>5 DEF Observe, Dismiss, claims
    <2>2. \/ Put(n, Superseded(rec[n]))
          \/ Put(n, [Superseded(rec[n]) EXCEPT !.ack = TRUE])
      BY <1>5 DEF Observe, Dismiss
    <2>3. n = m => /\ Superseded(rec[n]).state = "processed"
                   /\ [Superseded(rec[n]) EXCEPT !.ack = TRUE].state = "processed"
      BY <1>0 DEF Superseded, Receipt
    <2>. QED  BY <1>1, <2>1, <2>2, <2>3
  <1>6. ASSUME NEW n \in Msgs, ClaimRejected(n) \/ ClaimStale(n)  PROVE Kept
    <2>1. n # m  BY <1>6 DEF ClaimRejected, ClaimStale, Claimable, Final
    <2>2. UNCHANGED last /\ \E r : Put(n, r)  BY <1>6 DEF ClaimRejected, ClaimStale, claims
    <2>. QED  BY <1>1, <2>1, <2>2
  <1>7. ASSUME NEW n \in Msgs, MarkAcked(n) \/ Lapse(n)  PROVE Kept
    <2>1. UNCHANGED last  BY <1>7 DEF MarkAcked, Lapse, claims
    <2>2. \/ Put(n, [rec[n] EXCEPT !.ack = FALSE])
          \/ Put(n, [rec[n] EXCEPT !.lapsed = TRUE])
      BY <1>7 DEF MarkAcked, Lapse
    <2>3. n = m => /\ [rec[n] EXCEPT !.ack = FALSE].state = "processed"
                   /\ [rec[n] EXCEPT !.lapsed = TRUE].state = "processed"
      BY <1>0 DEF Receipt
    <2>. QED  BY <1>1, <2>1, <2>2, <2>3
  <1>8. ASSUME NEW n \in Msgs, NEW hard \in BOOLEAN, RequestPause(n, hard)  PROVE Kept
    <2> DEFINE r == [rec[n] EXCEPT !.state = IF @ = "none" THEN "pending" ELSE @,
                             !.bound = @ \/ rec[n].state = "none",
                             !.step = IF hard THEN "uncertain" ELSE "safe", !.marks = {}]
    <2>1. Put(n, r) /\ UNCHANGED last  BY <1>8 DEF RequestPause, claims
    <2>2. n = m => r.state = "processed"  BY <1>0 DEF Receipt
    <2> HIDE DEF r
    <2>. QED  BY <1>1, <2>1, <2>2
  <1>9. CASE MarkWrite
    <2> DEFINE n == marking.msg
               r == marking.row
               marks == IF marking.op = "clear" THEN r.marks \ {"attempt"}
                        ELSE r.marks \cup {marking.op}
               step == IF r.step = "null" THEN "none" ELSE r.step
               q == [rec[n] EXCEPT !.step = step, !.marks = marks]
    <2>1. n \in Msgs /\ UNCHANGED last  BY <1>0, <1>9 DEF MarkWrite, Rest, claims
    <2>2. UNCHANGED rec \/ Put(n, q) \/ (n # m /\ \E p : Put(n, p))
      <3>1. \/ UNCHANGED rec
            \/ Put(n, q)
            \/ /\ r.state = "none" /\ ~(r.state = "none" /\ rec[n].state # "none")
               /\ \E p : Put(n, p)
        BY <1>9 DEF MarkWrite
      <3>. QED  BY <3>1
    <2>3. n = m => q.state = "processed"  BY <1>0 DEF Receipt
    <2> HIDE DEF n, q
    <2>. QED  BY <1>1, <2>1, <2>2, <2>3
  <1>10. CASE WatchRenew
    <2> DEFINE rows == [n \in Msgs |-> IF n \in watch.rows /\ rec[n].state = "claimed"
                                   THEN [rec[n] EXCEPT !.lapsed = FALSE] ELSE rec[n]]
    <2>1. UNCHANGED last  BY <1>10 DEF WatchRenew, claims
    <2>2. rec' = rec \/ rec' = Requeued(rows)  BY <1>10 DEF WatchRenew
    <2>3. rows[m] = rec[m]  OBVIOUS
    <2>4. Requeued(rows)[m] = rows[m]  BY <2>3 DEF Requeued, Expired
    <2> HIDE DEF rows
    <2>. QED  BY <2>1, <2>2, <2>3, <2>4
  <1>11. CASE WatchExpire
    <2>1. rec' = Requeued(rec) /\ UNCHANGED last  BY <1>11 DEF WatchExpire, claims
    <2>2. Requeued(rec)[m] = rec[m]  BY DEF Requeued, Expired
    <2>. QED  BY <2>1, <2>2
  <1>12. ASSUME UNCHANGED <<rec, last>>  PROVE Kept
    BY <1>12
  <1>13. ASSUME NEW n \in Msgs, Resume(n)  PROVE Kept
    BY <1>12, <1>13 DEF Resume, claims
  <1>14. ASSUME NEW op \in MarkKinds \cup {"clear"}, NEW n \in Msgs, MarkRead(op, n)
         PROVE  Kept
    BY <1>12, <1>14 DEF MarkRead, claims
  <1>15. CASE CloseSession \/ PaneEnds \/ WatchRead \/ UNCHANGED vars
    BY <1>12, <1>15 DEF CloseSession, PaneEnds, WatchRead, vars, claims
  <1>. QED
    BY <1>2, <1>3, <1>4, <1>5, <1>6, <1>7, <1>8, <1>9, <1>10, <1>11, <1>13, <1>14, <1>15
       DEF Next, Step, Watch

\* A processed message is never claimed, settled, retired or requeued again, whatever
\* supersedes, dismisses, pauses or marks it afterwards (effectively once).
THEOREM ProcessedStays == Spec => ProcessedIsFinal
  <1>1. ReceiptsInv /\ [Next]_vars =>
          [\A m \in Msgs : rec[m].state = "processed" =>
              rec'[m].state = "processed" /\ last'[m] = last[m]]_vars
    BY ProcessedStep
  <1>. QED  BY <1>1, InvCorrect, PTL DEF Spec, ProcessedIsFinal
=============================================================================
