-------------------------- MODULE GalleryExportProofs --------------------------
(***************************************************************************)
(* Theorems about GalleryExport for any number of exports, workers, claims *)
(* and faults.                                                             *)
(***************************************************************************)
EXTENDS GalleryExport, TLAPS

Rows == [state: States, attempts: Nat, owner: Processes \cup {NoOwner},
         lease: {"none", "valid", "expired"}, archive: Archive \cup {NoKey}]
Attempts == [step: Steps, job: Jobs, claimed: Nat, as: Processes \cup {NoOwner}, attempt: Nat,
             token: Nat, inTime: BOOLEAN, final: BOOLEAN, lost: BOOLEAN]
Busy(s) == slots[s] # Idle

(* Of which attempt an archive is. *)
TokenOf(k) == k[3]
(* The tokens in use were given out. *)
Fresh ==
    /\ \A s \in Slots : Busy(s) => slots[s].token <= tokens
    /\ \A k \in object \cup due : TokenOf(k) <= tokens
    /\ \A j \in Jobs : job[j].archive # NoKey => TokenOf(job[j].archive) <= tokens
(* No two attempts share one. *)
Distinct == \A s, t \in Slots : Busy(s) /\ Busy(t) /\ slots[s].token = slots[t].token => s = t
(* Until an attempt has settled, nobody else knows its archive, and that   *)
(* is in the storage only once it is uploaded.                             *)
Own ==
    \A s \in Slots : Busy(s) /\ slots[s].step # "fail" =>
        /\ \A k \in due : TokenOf(k) # slots[s].token
        /\ \A j \in Jobs : job[j].archive # NoKey => TokenOf(job[j].archive) # slots[s].token
        /\ \A k \in object : TokenOf(k) = slots[s].token =>
                slots[s].step = "complete" /\ k = ArchiveOf(s)
Stored == \A s \in Slots : Busy(s) /\ slots[s].step = "complete" => ArchiveOf(s) \in object

IInv == TypeOK /\ Fresh /\ Distinct /\ Own /\ Stored /\ SucceededHasArchive

-----------------------------------------------------------------------------
(* Typing *)

LEMMA RowsAre == TypeOK <=>
    /\ job \in [Jobs -> Rows]
    /\ late \in SUBSET Jobs /\ gone \in SUBSET Jobs
    /\ object \in SUBSET Archive /\ due \in SUBSET Archive
    /\ slots \in [Slots -> {Idle} \cup Attempts]
    /\ tokens \in Nat /\ faults \in Nat
BY DEF TypeOK, Rows, Attempts

LEMMA InitType == Init => IInv
<1> SUFFICES ASSUME Init PROVE IInv
  OBVIOUS
<1>1. TypeOK
  BY ExportAssumption DEF Init, TypeOK, NoJob, States
<1> QED BY <1>1 DEF Init, IInv, Fresh, Distinct, Own, Stored, SucceededHasArchive, NoJob, Busy, TokenOf

(* A slot whose step is a step of an attempt holds one. *)
LEMMA BusyFields ==
    ASSUME TypeOK, NEW s \in Slots
    PROVE  /\ Busy(s) <=> slots[s].step \in Steps
           /\ Busy(s) <=> slots[s] \in Attempts
           /\ ArchiveOf(s) = <<slots[s].job, slots[s].attempt, slots[s].token>>
           /\ TokenOf(ArchiveOf(s)) = slots[s].token
           /\ Busy(s) => ArchiveOf(s) \in Archive
<1>1. slots[s] \in {Idle} \cup Attempts
  BY RowsAre
<1>2. slots[s] \in Attempts => slots[s].step \in Steps
  BY DEF Attempts
<1>3. Idle.step \notin Steps
  BY DEF Idle, Steps
<1>4. slots[s] \in Attempts => <<slots[s].job, slots[s].attempt, slots[s].token>> \in Archive
  BY DEF Attempts, Archive
<1> QED BY <1>1, <1>2, <1>3, <1>4 DEF Busy, ArchiveOf, Key, TokenOf

LEMMA EndedFields ==
    ASSUME TypeOK, NEW j \in Jobs, NEW state \in States
    PROVE  /\ Ended(j, state) \in Rows
           /\ Ended(j, state).state = state
           /\ Ended(j, state).archive = job[j].archive
<1>1. job[j] \in Rows
  BY RowsAre
<1> QED BY <1>1 DEF Ended, Rows

LEMMA SlotType ==
    ASSUME TypeOK, NEW s \in Slots, NEW next \in {Idle} \cup Attempts, Become(s, next)
    PROVE  slots' \in [Slots -> {Idle} \cup Attempts]
BY RowsAre DEF Become

LEMMA FaultType ==
    ASSUME TypeOK, UNCHANGED faults \/ \E f \in STRING : Fault(f)
    PROVE  faults' \in Nat
BY DEF TypeOK, Fault

-----------------------------------------------------------------------------
(* Most steps neither write nor name an archive. *)

SameTry(s) ==
    /\ slots'[s].token = slots[s].token
    /\ \/ slots'[s].step = "fail"
       \/ slots[s].step \in Steps \ {"fail", "complete"} /\ slots'[s].step \in Steps \ {"fail", "complete"}
       \/ /\ slots'[s].step = slots[s].step
          /\ slots'[s].job = slots[s].job /\ slots'[s].attempt = slots[s].attempt
NothingNew ==
    /\ UNCHANGED <<object, due, tokens>>
    /\ \A j \in Jobs : /\ job'[j].archive = job[j].archive
                       /\ job'[j].state = "succeeded" => job[j].state = "succeeded"
    /\ \A s \in Slots : slots'[s] # Idle => slots[s] # Idle /\ SameTry(s)

LEMMA Quiet ==
    ASSUME IInv, TypeOK', NothingNew
    PROVE  IInv'
<1> USE DEF IInv, NothingNew
<1>1. \A s \in Slots : slots'[s] # Idle => slots[s] # Idle /\ slots'[s].token = slots[s].token
  BY DEF SameTry
<1>2. Fresh'
  BY <1>1 DEF Fresh, Busy
<1>3. Distinct'
  BY <1>1 DEF Distinct, Busy
<1>4. \A s \in Slots : Busy(s)' /\ slots'[s].step = "complete" =>
          slots[s].step = "complete" /\ ArchiveOf(s)' = ArchiveOf(s)
  BY DEF SameTry, Busy, ArchiveOf, Key
<1>5. \A s \in Slots : Busy(s)' /\ slots'[s].step # "fail" =>
          /\ Busy(s) /\ slots[s].step # "fail"
          /\ slots[s].step = "complete" => slots'[s].step = "complete"
  BY DEF SameTry, Busy, Steps
<1>6. Own'
  <2> SUFFICES ASSUME NEW s \in Slots, Busy(s)', slots'[s].step # "fail"
               PROVE  /\ \A k \in due' : TokenOf(k) # slots'[s].token
                      /\ \A j \in Jobs : job'[j].archive # NoKey => TokenOf(job'[j].archive) # slots'[s].token
                      /\ \A k \in object' : TokenOf(k) = slots'[s].token =>
                              slots'[s].step = "complete" /\ k = ArchiveOf(s)'
    BY DEF Own, TokenOf
  <2>1. Busy(s) /\ slots[s].step # "fail" /\ slots'[s].token = slots[s].token
    BY <1>1, <1>5 DEF Busy
  <2>2. /\ \A k \in due : TokenOf(k) # slots[s].token
        /\ \A j \in Jobs : job[j].archive # NoKey => TokenOf(job[j].archive) # slots[s].token
        /\ \A k \in object : TokenOf(k) = slots[s].token =>
                slots[s].step = "complete" /\ k = ArchiveOf(s)
    BY <2>1 DEF Own
  <2> QED BY <2>1, <2>2, <1>4, <1>5
<1>7. Stored'
  BY <1>1, <1>4 DEF Stored, Busy
<1>8. SucceededHasArchive'
  BY DEF SucceededHasArchive
<1> QED BY <1>2, <1>3, <1>6, <1>7, <1>8

LEMMA EndsQuietly ==
    ASSUME IInv, NEW J \in SUBSET Jobs, NEW E \in [J -> States \ {"succeeded"}],
           job' = [j \in Jobs |-> IF j \in J THEN Ended(j, E[j]) ELSE job[j]],
           UNCHANGED <<late, gone, object, due, tokens>>, faults' \in Nat,
           slots' \in [Slots -> {Idle} \cup Attempts],
           \A s \in Slots : slots'[s] # Idle => slots[s] # Idle /\ SameTry(s)
    PROVE  IInv'
<1>1. TypeOK
  BY DEF IInv
<1>2. \A j \in J : /\ Ended(j, E[j]) \in Rows
                   /\ Ended(j, E[j]).state # "succeeded"
                   /\ Ended(j, E[j]).archive = job[j].archive
  BY <1>1, EndedFields
<1>3. job' \in [Jobs -> Rows]
  BY <1>1, <1>2, RowsAre
<1>4. TypeOK'
  BY <1>1, <1>3 DEF TypeOK, Rows, Attempts
<1>5. NothingNew
  BY <1>2 DEF NothingNew
<1> QED BY <1>4, <1>5, Quiet

LEMMA TimeStep ==
    ASSUME IInv, NEW j \in Jobs,
           Create(j) \/ Deadline(j) \/ AssetGoes(j) \/ RunOut(j)
    PROVE  IInv'
<1>1. TypeOK /\ job[j] \in Rows
  BY RowsAre DEF IInv
<1>2. CASE Create(j)
  <2>1. [job[j] EXCEPT !.state = "queued"] \in Rows
    BY <1>1 DEF Rows, States
  <2>2. job' \in [Jobs -> Rows]
    BY <1>1, <1>2, <2>1, RowsAre DEF Create
  <2>3. TypeOK'
    BY <1>1, <1>2, <2>2 DEF TypeOK, Create, world, Rows
  <2>4. NothingNew
    BY <1>1, <1>2, RowsAre DEF NothingNew, Create, SameTry, Rows
  <2> QED BY <2>3, <2>4, Quiet
<1>3. CASE Deadline(j) \/ AssetGoes(j)
  <2>1. TypeOK'
    BY <1>1, <1>3 DEF TypeOK, Deadline, AssetGoes
  <2>2. NothingNew
    BY <1>1, <1>3, RowsAre DEF NothingNew, Deadline, AssetGoes, SameTry
  <2> QED BY <2>1, <2>2, Quiet
<1>4. CASE RunOut(j)
  <2>1. [job[j] EXCEPT !.lease = "expired"] \in Rows
    BY <1>1 DEF Rows
  <2>2. job' \in [Jobs -> Rows]
    BY <1>1, <1>4, <2>1, RowsAre DEF RunOut
  <2>3. faults' \in Nat
    BY <1>1, <1>4 DEF RunOut, Fault, TypeOK
  <2>4. TypeOK'
    BY <1>1, <1>4, <2>2, <2>3 DEF TypeOK, RunOut, world, Rows
  <2>5. NothingNew
    BY <1>1, <1>4, RowsAre DEF NothingNew, RunOut, SameTry, Rows
  <2> QED BY <2>4, <2>5, Quiet
<1> QED BY <1>2, <1>3, <1>4

LEMMA ExpiryStep ==
    ASSUME IInv, ExpireLate \/ \E j \in Jobs : Show(j)
    PROVE  IInv'
<1>1. TypeOK
  BY DEF IInv
<1>2. ASSUME NEW J \in SUBSET Jobs,
             job' = [j \in Jobs |-> IF j \in J THEN Ended(j, "failed") ELSE job[j]],
             UNCHANGED <<world, object, due, slots, tokens, faults>>
      PROVE  IInv'
  <2> DEFINE E == [j \in J |-> "failed"]
  <2>1. E \in [J -> States \ {"succeeded"}]
    BY DEF States
  <2>2. job' = [j \in Jobs |-> IF j \in J THEN Ended(j, E[j]) ELSE job[j]]
    BY <1>2
  <2>3. UNCHANGED <<late, gone, object, due, tokens>> /\ faults' \in Nat
    BY <1>1, <1>2 DEF world, TypeOK
  <2>4. slots' \in [Slots -> {Idle} \cup Attempts]
    BY <1>1, <1>2, RowsAre
  <2>5. \A s \in Slots : slots'[s] # Idle => slots[s] # Idle /\ SameTry(s)
    BY <1>2 DEF SameTry
  <2> HIDE DEF E
  <2> QED BY <2>1, <2>2, <2>3, <2>4, <2>5, EndsQuietly
<1>3. CASE ExpireLate
  <2> DEFINE J == {j \in Jobs : Overdue(j)}
  <2>1. job' = [j \in Jobs |-> IF j \in J THEN Ended(j, "failed") ELSE job[j]]
    BY <1>3 DEF ExpireLate
  <2>2. UNCHANGED <<world, object, due, slots, tokens, faults>>
    BY <1>3 DEF ExpireLate
  <2>3. J \in SUBSET Jobs
    OBVIOUS
  <2> HIDE DEF J
  <2> QED BY <1>2, <2>1, <2>2, <2>3
<1>4. CASE \E j \in Jobs : Show(j)
  <2>1. PICK i \in Jobs : Show(i)
    BY <1>4
  <2>2. job' = [j \in Jobs |-> IF j \in {i} THEN Ended(j, "failed") ELSE job[j]]
    BY <1>1, <2>1, RowsAre DEF Show
  <2> QED BY <1>2, <2>1, <2>2 DEF Show
<1> QED BY <1>3, <1>4

LEMMA SlotStep ==
    ASSUME IInv, NEW s \in Slots,
           Reload(s) \/ Heartbeat(s) \/ Build(s) \/ Fail(s) \/ Die(s)
    PROVE  IInv'
<1> DEFINE c == slots[s]
<1>1. TypeOK /\ Busy(s) /\ c \in Attempts /\ c.step \in Steps /\ s[1] \in Processes
  <2>1. TypeOK
    BY DEF IInv
  <2>2. Reload(s) \/ Build(s) \/ Fail(s) => c.step \in Steps
    BY DEF Reload, Build, Fail, Steps
  <2>3. Heartbeat(s) => c.step \in Steps
    BY DEF Heartbeat
  <2>4. Die(s) => Busy(s)
    BY DEF Die, Busy
  <2> QED BY <2>1, <2>2, <2>3, <2>4, BusyFields DEF Slots
<1>2. c.job \in Jobs /\ job[c.job] \in Rows
  BY <1>1, RowsAre DEF Attempts
<1>3. faults' \in Nat /\ UNCHANGED <<late, gone, object, due, tokens>>
  <2>1. faults \in Nat
    BY <1>1 DEF TypeOK
  <2>2. UNCHANGED faults \/ faults' = faults + 1
    BY DEF Reload, Heartbeat, Build, Fail, Die, Fault
  <2>3. UNCHANGED <<late, gone, object, due, tokens>>
    BY DEF Reload, Heartbeat, Build, Fail, Die, world
  <2> QED BY <2>1, <2>2, <2>3
<1>4. ASSUME NEW next \in {Idle} \cup Attempts, slots' = [slots EXCEPT ![s] = next],
             next # Idle => /\ next.token = c.token /\ next.job = c.job
                            /\ \/ next.step = "fail"
                               \/ /\ c.step \in Steps \ {"fail", "complete"}
                                  /\ next.step \in Steps \ {"fail", "complete"}
                               \/ next.step = c.step /\ next.attempt = c.attempt
      PROVE  /\ slots' \in [Slots -> {Idle} \cup Attempts]
             /\ \A t \in Slots : slots'[t] # Idle => slots[t] # Idle /\ SameTry(t)
  <2>1. slots' \in [Slots -> {Idle} \cup Attempts]
    BY <1>1, <1>4, RowsAre
  <2>2. ASSUME NEW t \in Slots, slots'[t] # Idle
        PROVE  slots[t] # Idle /\ SameTry(t)
    <3>1. slots'[t] = IF t = s THEN next ELSE slots[t]
      BY <1>1, <1>4, RowsAre
    <3>2. CASE t = s
      BY <3>1, <3>2, <2>2, <1>1, <1>4 DEF SameTry, Busy
    <3>3. CASE t # s
      BY <3>1, <3>3, <2>2 DEF SameTry
    <3> QED BY <3>2, <3>3
  <2> QED BY <2>1, <2>2
<1>5. ASSUME UNCHANGED job,
             slots' \in [Slots -> {Idle} \cup Attempts],
             \A t \in Slots : slots'[t] # Idle => slots[t] # Idle /\ SameTry(t)
      PROVE  IInv'
  <2>1. TypeOK'
    BY <1>1, <1>3, <1>5 DEF TypeOK, Attempts
  <2>2. NothingNew
    BY <1>3, <1>5 DEF NothingNew
  <2> QED BY <2>1, <2>2, Quiet
<1>6. CASE Reload(s)
  <2> DEFINE next == [c EXCEPT !.step = "build", !.as = job[c.job].owner, !.attempt = job[c.job].attempts]
  <2>1. next \in Attempts /\ next.token = c.token /\ next.job = c.job /\ next.step = "build"
    BY <1>1, <1>2 DEF Attempts, Rows, Steps
  <2>2. slots' = [slots EXCEPT ![s] = next] \/ slots' = [slots EXCEPT ![s] = Idle]
    BY <1>6 DEF Reload, Become
  <2>3. c.step = "reload"
    BY <1>6 DEF Reload
  <2>4. /\ slots' \in [Slots -> {Idle} \cup Attempts]
        /\ \A t \in Slots : slots'[t] # Idle => slots[t] # Idle /\ SameTry(t)
    <3> HIDE DEF next, c
    <3> QED BY <2>1, <2>2, <2>3, <1>4 DEF Steps
  <2> QED BY <1>5, <1>6, <2>4 DEF Reload
<1>7. CASE Heartbeat(s)
  <2> DEFINE next == [c EXCEPT !.lost = TRUE]
  <2>1. next \in Attempts /\ next.token = c.token /\ next.job = c.job /\ next.step = c.step /\ next.attempt = c.attempt
    BY <1>1 DEF Attempts
  <2>2. CASE UNCHANGED job
    <3>1. slots' = [slots EXCEPT ![s] = next] \/ slots' = [slots EXCEPT ![s] = c]
      BY <1>1, <1>7, RowsAre DEF Heartbeat
    <3>2. /\ slots' \in [Slots -> {Idle} \cup Attempts]
          /\ \A t \in Slots : slots'[t] # Idle => slots[t] # Idle /\ SameTry(t)
      <4> HIDE DEF next, c
      <4> QED BY <1>1, <1>4, <2>1, <3>1
    <3> QED BY <1>5, <2>2, <3>2
  <2>3. CASE job' = [job EXCEPT ![c.job].lease = "valid"] /\ UNCHANGED slots
    <3>1. [job[c.job] EXCEPT !.lease = "valid"] \in Rows
      BY <1>2 DEF Rows
    <3>2. job' \in [Jobs -> Rows]
      BY <1>1, <1>2, <2>3, <3>1, RowsAre
    <3>3. TypeOK'
      BY <1>1, <1>3, <2>3, <3>2 DEF TypeOK, Rows
    <3>4. \A j \in Jobs : job'[j].archive = job[j].archive /\ job'[j].state = job[j].state
      BY <1>1, <1>2, <2>3, RowsAre DEF Rows
    <3>5. NothingNew
      BY <1>3, <2>3, <3>4 DEF NothingNew, SameTry
    <3> QED BY <3>3, <3>5, Quiet
  <2> QED BY <1>7, <2>2, <2>3 DEF Heartbeat
<1>8. CASE Build(s)
  <2>1. PICK step \in {"upload", "fail"}, final \in BOOLEAN :
            slots' = [slots EXCEPT ![s].step = step, ![s].final = final]
    BY <1>8 DEF Build
  <2> DEFINE next == [c EXCEPT !.step = step, !.final = final]
  <2>2. next \in Attempts /\ next.token = c.token /\ next.job = c.job /\ next.step = step
    BY <1>1 DEF Attempts, Steps
  <2>3. slots' = [slots EXCEPT ![s] = next]
    BY <2>1
  <2>4. c.step = "build"
    BY <1>8 DEF Build
  <2>5. /\ slots' \in [Slots -> {Idle} \cup Attempts]
        /\ \A t \in Slots : slots'[t] # Idle => slots[t] # Idle /\ SameTry(t)
    <3> HIDE DEF next, c
    <3> QED BY <2>2, <2>3, <2>4, <1>4 DEF Steps
  <2> QED BY <1>5, <1>8, <2>5 DEF Build
<1>9. CASE Fail(s) \/ Die(s)
  <2>1. slots' = [slots EXCEPT ![s] = Idle]
    BY <1>9 DEF Fail, Die, Become
  <2>2. /\ slots' \in [Slots -> {Idle} \cup Attempts]
        /\ \A t \in Slots : slots'[t] # Idle => slots[t] # Idle /\ SameTry(t)
    <3> HIDE DEF c
    <3> QED BY <2>1, <1>4
  <2>3. CASE UNCHANGED job
    BY <1>5, <2>2, <2>3
  <2>4. CASE \E state \in {"failed", "queued"} : job' = [job EXCEPT ![c.job] = Ended(c.job, state)]
    <3>1. PICK state \in {"failed", "queued"} : job' = [job EXCEPT ![c.job] = Ended(c.job, state)]
      BY <2>4
    <3> DEFINE E == [j \in {c.job} |-> state]
    <3>2. E \in [{c.job} -> States \ {"succeeded"}]
      BY DEF States
    <3>3. job' = [j \in Jobs |-> IF j \in {c.job} THEN Ended(j, E[j]) ELSE job[j]]
      BY <1>1, <1>2, <3>1, RowsAre
    <3>4. {c.job} \in SUBSET Jobs
      BY <1>2
    <3> HIDE DEF E, c
    <3> QED BY <1>3, <2>2, <3>2, <3>3, <3>4, EndsQuietly
  <2> QED BY <1>9, <2>3, <2>4 DEF Fail, Die, Retried
<1> QED BY <1>6, <1>7, <1>8, <1>9

-----------------------------------------------------------------------------
(* The steps that give out a token, or write or name an archive. *)

LEMMA ClaimStep ==
    ASSUME IInv, NEW s \in Slots, Claim(s)
    PROVE  IInv'
<1>1. TypeOK /\ s[1] \in Processes /\ tokens + 1 \in Nat
  BY DEF IInv, TypeOK, Slots
<1>2. PICK j \in Jobs :
        /\ Eligible(j)
        /\ job' = [job EXCEPT ![j].state = "running", ![j].owner = Owner(s),
                              ![j].lease = "valid", ![j].attempts = @ + 1]
        /\ Become(s, [step |-> "reload", job |-> j, claimed |-> job[j].attempts + 1, as |-> Owner(s),
                      attempt |-> job[j].attempts + 1, token |-> tokens + 1,
                      inTime |-> TRUE, final |-> FALSE, lost |-> FALSE])
  BY DEF Claim
<1> DEFINE row == [job[j] EXCEPT !.state = "running", !.owner = Owner(s),
                                 !.lease = "valid", !.attempts = job[j].attempts + 1]
           next == [step |-> "reload", job |-> j, claimed |-> job[j].attempts + 1, as |-> Owner(s),
                    attempt |-> job[j].attempts + 1, token |-> tokens + 1,
                    inTime |-> TRUE, final |-> FALSE, lost |-> FALSE]
<1>3. job[j] \in Rows
  BY <1>1, RowsAre
<1>4. row \in Rows /\ row.archive = job[j].archive /\ row.state = "running"
  <2>1. Owner(s) \in Processes
    BY <1>1 DEF Owner
  <2>2. job[j].attempts + 1 \in Nat
    BY <1>3 DEF Rows
  <2>3. "running" \in States
    BY DEF States
  <2> QED BY <1>3, <2>1, <2>2, <2>3 DEF Rows
<1>5. next \in Attempts /\ next.step = "reload" /\ next.token = tokens + 1
  BY <1>1, <1>3 DEF Attempts, Rows, Owner, Steps
<1>6. job' = [job EXCEPT ![j] = row] /\ slots' = [slots EXCEPT ![s] = next]
  BY <1>2 DEF Become
<1>7. slots[s] = Idle /\ tokens' = tokens + 1 /\ UNCHANGED <<late, gone, object, due, faults>>
  BY DEF Claim, world
<1> HIDE DEF row, next
<1>8. job' \in [Jobs -> Rows] /\ slots' \in [Slots -> {Idle} \cup Attempts]
  BY <1>1, <1>4, <1>5, <1>6, RowsAre
<1>9. TypeOK'
  BY <1>1, <1>7, <1>8 DEF TypeOK, Rows, Attempts
<1>10. \A i \in Jobs : job'[i].archive = job[i].archive
                       /\ (job'[i].state = "succeeded" => job[i].state = "succeeded")
  BY <1>1, <1>4, <1>6, RowsAre
<1>11. \A t \in Slots : slots'[t] = IF t = s THEN next ELSE slots[t]
  BY <1>1, <1>6, RowsAre
<1>12. Fresh'
  BY <1>1, <1>5, <1>7, <1>10, <1>11, BusyFields DEF IInv, Fresh, Busy, TokenOf, TypeOK, Attempts, Archive
<1>13. \A t \in Slots : Busy(t) => slots[t].token # tokens + 1
  BY <1>1, RowsAre DEF IInv, Fresh, Busy, Attempts
<1>14. Distinct'
  BY <1>5, <1>11, <1>13 DEF IInv, Distinct, Busy
<1>15. \A k \in object \cup due : TokenOf(k) # tokens + 1
  BY <1>1 DEF IInv, Fresh, TypeOK, Archive, TokenOf
<1>16. \A i \in Jobs : job[i].archive # NoKey => TokenOf(job[i].archive) # tokens + 1
  BY <1>1, RowsAre DEF IInv, Fresh, Rows, Archive, TokenOf
<1>17. Own'
  <2> SUFFICES ASSUME NEW t \in Slots, Busy(t)', slots'[t].step # "fail"
               PROVE  /\ \A k \in due' : TokenOf(k) # slots'[t].token
                      /\ \A i \in Jobs : job'[i].archive # NoKey => TokenOf(job'[i].archive) # slots'[t].token
                      /\ \A k \in object' : TokenOf(k) = slots'[t].token =>
                              slots'[t].step = "complete" /\ k = ArchiveOf(t)'
    BY DEF Own, TokenOf
  <2>1. CASE t = s
    BY <2>1, <1>5, <1>7, <1>10, <1>11, <1>15, <1>16
  <2>2. CASE t # s
    BY <2>2, <1>7, <1>10, <1>11 DEF IInv, Own, Busy, ArchiveOf, Key
  <2> QED BY <2>1, <2>2
<1>18. Stored'
  BY <1>5, <1>7, <1>11 DEF IInv, Stored, Busy, ArchiveOf, Key
<1>19. SucceededHasArchive'
  BY <1>7, <1>10 DEF IInv, SucceededHasArchive
<1> QED BY <1>9, <1>12, <1>14, <1>17, <1>18, <1>19 DEF IInv

(* No other attempt writes the archive of an attempt, and no job has it yet. *)
LEMMA UploadStep ==
    ASSUME IInv, NEW s \in Slots, Upload(s)
    PROVE  IInv'
<1>1. TypeOK /\ slots[s].step = "upload" /\ Busy(s) /\ slots[s] \in Attempts
  BY BusyFields DEF IInv, Upload, Steps
<1>2. ArchiveOf(s) \in Archive /\ TokenOf(ArchiveOf(s)) = slots[s].token
  BY <1>1, BusyFields
<1>3. UNCHANGED <<job, late, gone, due, tokens>> /\ faults' \in Nat
  <2>1. faults \in Nat
    BY <1>1 DEF TypeOK
  <2> QED BY <2>1 DEF Upload, world, Fault
<1>4. PICK step \in {"complete", "fail"}, inTime \in BOOLEAN :
          /\ slots' = [slots EXCEPT ![s] = [slots[s] EXCEPT !.step = step, !.inTime = inTime]]
          /\ object' = IF step = "complete" THEN object \cup {ArchiveOf(s)} ELSE object \ {ArchiveOf(s)}
  <2>1. CASE /\ object' = object \cup {ArchiveOf(s)}
             /\ slots' = [slots EXCEPT ![s].step = "complete", ![s].inTime = slots[s].job \notin late]
    BY <2>1
  <2>2. CASE /\ object' = object \ {ArchiveOf(s)}
             /\ slots' = [slots EXCEPT ![s].step = "fail"]
    <3>1. slots[s].inTime \in BOOLEAN /\ [slots[s] EXCEPT !.step = "fail"]
              = [slots[s] EXCEPT !.step = "fail", !.inTime = slots[s].inTime]
      BY <1>1 DEF Attempts
    <3> QED BY <2>2, <3>1
  <2> QED BY <2>1, <2>2 DEF Upload
<1> DEFINE next == [slots[s] EXCEPT !.step = step, !.inTime = inTime]
<1>5. next \in Attempts /\ next.step = step /\ next.job = slots[s].job
      /\ next.attempt = slots[s].attempt /\ next.token = slots[s].token
  BY <1>1 DEF Attempts, Steps
<1>6. slots' = [slots EXCEPT ![s] = next]
  BY <1>4
<1> HIDE DEF next
<1>7. slots' \in [Slots -> {Idle} \cup Attempts] /\ object' \in SUBSET Archive
  BY <1>1, <1>2, <1>4, <1>5, <1>6, RowsAre
<1>8. TypeOK'
  BY <1>1, <1>3, <1>7 DEF TypeOK, Attempts
<1>9. \A t \in Slots : slots'[t] = IF t = s THEN next ELSE slots[t]
  BY <1>1, <1>6, RowsAre
<1>10. \A t \in Slots : /\ Busy(t)' => Busy(t) /\ slots'[t].token = slots[t].token
                        /\ ArchiveOf(t)' = ArchiveOf(t)
  BY <1>1, <1>5, <1>9 DEF Busy, ArchiveOf, Key
<1>11. slots[s].token <= tokens
  BY <1>1 DEF IInv, Fresh
<1>12. Fresh'
  BY <1>2, <1>3, <1>4, <1>10, <1>11 DEF IInv, Fresh, TokenOf
<1>13. Distinct'
  BY <1>10 DEF IInv, Distinct
<1>14. /\ \A k \in due : TokenOf(k) # slots[s].token
       /\ \A j \in Jobs : job[j].archive # NoKey => TokenOf(job[j].archive) # slots[s].token
       /\ \A k \in object : TokenOf(k) # slots[s].token
  BY <1>1 DEF IInv, Own
<1>15. \A t \in Slots : t # s /\ Busy(t) => slots[t].token # slots[s].token
  BY <1>1 DEF IInv, Distinct
<1>16. Own'
  <2> SUFFICES ASSUME NEW t \in Slots, Busy(t)', slots'[t].step # "fail"
               PROVE  /\ \A k \in due' : TokenOf(k) # slots'[t].token
                      /\ \A i \in Jobs : job'[i].archive # NoKey => TokenOf(job'[i].archive) # slots'[t].token
                      /\ \A k \in object' : TokenOf(k) = slots'[t].token =>
                              slots'[t].step = "complete" /\ k = ArchiveOf(t)'
    BY DEF Own, TokenOf
  <2>1. CASE t = s
    <3>1. step = "complete" /\ slots'[t].token = slots[s].token /\ slots'[t].step = "complete"
      BY <2>1, <1>5, <1>9
    <3> QED BY <2>1, <3>1, <1>3, <1>4, <1>10, <1>14
  <2>2. CASE t # s
    <3>1. slots'[t] = slots[t] /\ Busy(t) /\ slots[t].step # "fail"
      BY <2>2, <1>9 DEF Busy
    <3>2. /\ \A k \in due : TokenOf(k) # slots[t].token
          /\ \A j \in Jobs : job[j].archive # NoKey => TokenOf(job[j].archive) # slots[t].token
          /\ \A k \in object : TokenOf(k) = slots[t].token =>
                slots[t].step = "complete" /\ k = ArchiveOf(t)
      BY <3>1 DEF IInv, Own
    <3>3. TokenOf(ArchiveOf(s)) # slots[t].token
      BY <2>2, <3>1, <1>2, <1>15
    <3> QED BY <3>1, <3>2, <3>3, <1>3, <1>4, <1>10
  <2> QED BY <2>1, <2>2
<1>17. Stored'
  <2> SUFFICES ASSUME NEW t \in Slots, Busy(t)', slots'[t].step = "complete"
               PROVE  ArchiveOf(t)' \in object'
    BY DEF Stored
  <2>1. CASE t = s
    BY <2>1, <1>4, <1>5, <1>9, <1>10
  <2>2. CASE t # s
    <3>1. Busy(t) /\ slots[t].step = "complete" /\ slots'[t] = slots[t]
      BY <2>2, <1>9 DEF Busy
    <3>2. ArchiveOf(t) \in object
      BY <3>1 DEF IInv, Stored
    <3>3. TokenOf(ArchiveOf(t)) # TokenOf(ArchiveOf(s))
      BY <2>2, <3>1, <1>1, <1>2, <1>15, BusyFields
    <3> QED BY <3>2, <3>3, <1>4, <1>10
  <2> QED BY <2>1, <2>2
<1>18. SucceededHasArchive'
  <2>1. \A j \in Jobs : job[j].state = "succeeded" => job[j].archive \in object
    BY DEF IInv, SucceededHasArchive
  <2>2. NoKey \notin Archive
    BY DEF NoKey, Archive
  <2>3. \A j \in Jobs : job[j].state = "succeeded" => job[j].archive # ArchiveOf(s)
    BY <1>1, <1>2, <1>14, <2>1
  <2> QED BY <1>3, <1>4, <2>1, <2>3 DEF SucceededHasArchive
<1> QED BY <1>8, <1>12, <1>13, <1>16, <1>17, <1>18 DEF IInv

LEMMA CompleteStep ==
    ASSUME IInv, NEW s \in Slots, Complete(s)
    PROVE  IInv'
<1>1. TypeOK /\ slots[s].step = "complete" /\ Busy(s) /\ slots[s] \in Attempts
      /\ slots[s].job \in Jobs
  BY BusyFields DEF IInv, Complete, Steps, Attempts
<1>2. ArchiveOf(s) \in Archive /\ TokenOf(ArchiveOf(s)) = slots[s].token /\ ArchiveOf(s) \in object
  BY <1>1, BusyFields DEF IInv, Stored
<1>3. UNCHANGED <<late, gone, object, tokens>> /\ faults' \in Nat
  <2>1. faults \in Nat
    BY <1>1 DEF TypeOK
  <2> QED BY <2>1 DEF Complete, world, Fault
<1> DEFINE failing == [slots[s] EXCEPT !.step = "fail"]
<1>4. failing \in Attempts /\ failing.step = "fail" /\ failing.token = slots[s].token
  BY <1>1 DEF Attempts, Steps
<1>5. PICK next \in {Idle, failing} : slots' = [slots EXCEPT ![s] = next]
  BY DEF Complete, Become
<1> HIDE DEF failing
<1>6. \A t \in Slots : slots'[t] = IF t = s THEN next ELSE slots[t]
  BY <1>1, <1>5, RowsAre
<1>7. slots' \in [Slots -> {Idle} \cup Attempts]
  BY <1>1, <1>4, <1>5, RowsAre
<1>8. CASE UNCHANGED <<job, due>>
  <2>1. TypeOK'
    BY <1>1, <1>3, <1>7, <1>8 DEF TypeOK, Attempts
  <2>2. \A t \in Slots : slots'[t] # Idle => slots[t] # Idle /\ SameTry(t)
    BY <1>1, <1>4, <1>6 DEF SameTry, Busy
  <2>3. NothingNew
    BY <1>3, <1>8, <2>2 DEF NothingNew
  <2> QED BY <2>1, <2>3, Quiet
<1>9. CASE Completed(s)
  <2> DEFINE row == [Ended(slots[s].job, "succeeded") EXCEPT !.archive = ArchiveOf(s)]
  <2>1. Ended(slots[s].job, "succeeded") \in Rows
    BY <1>1, EndedFields DEF States
  <2>2. row \in Rows /\ row.archive = ArchiveOf(s)
    BY <1>2, <2>1 DEF Rows
  <2>3. job' = [job EXCEPT ![slots[s].job] = row] /\ due' = due \cup {ArchiveOf(s)}
    BY <1>9 DEF Completed
  <2> HIDE DEF row
  <2>4. job' \in [Jobs -> Rows] /\ due' \in SUBSET Archive
    BY <1>1, <1>2, <2>2, <2>3, RowsAre
  <2>5. TypeOK'
    BY <1>1, <1>3, <1>7, <2>4 DEF TypeOK, Attempts, Rows
  <2>6. \A j \in Jobs : job'[j] = IF j = slots[s].job THEN row ELSE job[j]
    BY <1>1, <2>3, RowsAre
  <2>7. \A t \in Slots : Busy(t)' => Busy(t) /\ slots'[t].token = slots[t].token
    BY <1>1, <1>4, <1>5, <1>6 DEF Busy
  <2>8. \A t \in Slots : Busy(t)' /\ slots'[t].step # "fail" => t # s /\ slots'[t] = slots[t] /\ Busy(t)
    BY <1>4, <1>5, <1>6 DEF Busy
  <2>9. slots[s].token <= tokens
    BY <1>1 DEF IInv, Fresh
  <2>10. Fresh'
    BY <1>2, <1>3, <2>2, <2>3, <2>6, <2>7, <2>9 DEF IInv, Fresh, TokenOf
  <2>11. Distinct'
    BY <2>7 DEF IInv, Distinct
  <2>12. Own'
    <3> SUFFICES ASSUME NEW t \in Slots, Busy(t)', slots'[t].step # "fail"
                 PROVE  /\ \A k \in due' : TokenOf(k) # slots'[t].token
                        /\ \A i \in Jobs : job'[i].archive # NoKey => TokenOf(job'[i].archive) # slots'[t].token
                        /\ \A k \in object' : TokenOf(k) = slots'[t].token =>
                                slots'[t].step = "complete" /\ k = ArchiveOf(t)'
      BY DEF Own, TokenOf
    <3>1. t # s /\ slots'[t] = slots[t] /\ Busy(t)
      BY <2>8
    <3>2. slots[t].token # slots[s].token
      BY <3>1, <1>1 DEF IInv, Distinct
    <3>3. /\ \A k \in due : TokenOf(k) # slots[t].token
          /\ \A j \in Jobs : job[j].archive # NoKey => TokenOf(job[j].archive) # slots[t].token
          /\ \A k \in object : TokenOf(k) = slots[t].token =>
                slots[t].step = "complete" /\ k = ArchiveOf(t)
      BY <3>1 DEF IInv, Own
    <3>4. ArchiveOf(t)' = ArchiveOf(t)
      BY <3>1 DEF ArchiveOf, Key
    <3> QED BY <3>1, <3>2, <3>3, <3>4, <1>2, <1>3, <2>2, <2>3, <2>6
  <2>13. Stored'
    BY <1>3, <2>8 DEF IInv, Stored, ArchiveOf, Key
  <2>14. SucceededHasArchive'
    BY <1>2, <1>3, <2>2, <2>6 DEF IInv, SucceededHasArchive
  <2> QED BY <2>5, <2>10, <2>11, <2>12, <2>13, <2>14 DEF IInv
<1> QED BY <1>8, <1>9 DEF Complete

LEMMA ArchiveStep ==
    ASSUME IInv,
           \/ \E j \in Jobs : ExpireReady(j)
           \/ \E k \in due : CleanUp(k)
           \/ \E k \in object : Sweep(k)
    PROVE  IInv'
<1>1. TypeOK
  BY DEF IInv
<1>2. UNCHANGED <<late, gone, slots, tokens, faults>>
  BY DEF ExpireReady, CleanUp, Sweep, world
<1>3. Distinct'
  BY <1>2 DEF IInv, Distinct, Busy
<1>4. ASSUME due' \subseteq due \cup object, object' \subseteq object, job' \in [Jobs -> Rows],
             \A j \in Jobs : job'[j].archive = job[j].archive
                             /\ (job'[j].state = "succeeded" => job[j].state = "succeeded"),
             \A k \in due' \ due : /\ \A s \in Slots : Busy(s) => ArchiveOf(s) # k
                                   \/ \E j \in Jobs : job[j].archive = k /\ job[j].archive # NoKey,
             \A k \in object \ object' : k \in due /\ ~Referred(k)
      PROVE  IInv'
  <2>1. TypeOK'
    BY <1>1, <1>2, <1>4 DEF TypeOK, Rows, Attempts
  <2>2. Fresh'
    BY <1>2, <1>4 DEF IInv, Fresh, Busy, TokenOf
  <2>3. Own'
    <3> SUFFICES ASSUME NEW t \in Slots, Busy(t)', slots'[t].step # "fail"
                 PROVE  /\ \A k \in due' : TokenOf(k) # slots'[t].token
                        /\ \A i \in Jobs : job'[i].archive # NoKey => TokenOf(job'[i].archive) # slots'[t].token
                        /\ \A k \in object' : TokenOf(k) = slots'[t].token =>
                                slots'[t].step = "complete" /\ k = ArchiveOf(t)'
      BY DEF Own, TokenOf
    <3>1. slots'[t] = slots[t] /\ Busy(t)
      BY <1>2 DEF Busy
    <3>2. /\ \A k \in due : TokenOf(k) # slots[t].token
          /\ \A j \in Jobs : job[j].archive # NoKey => TokenOf(job[j].archive) # slots[t].token
          /\ \A k \in object : TokenOf(k) = slots[t].token =>
                slots[t].step = "complete" /\ k = ArchiveOf(t)
      BY <3>1 DEF IInv, Own
    <3>3. ArchiveOf(t)' = ArchiveOf(t)
      BY <3>1 DEF ArchiveOf, Key
    <3>4. \A k \in due' : TokenOf(k) # slots'[t].token
      BY <3>1, <3>2, <1>4
    <3> QED BY <3>1, <3>2, <3>3, <3>4, <1>4
  <2>4. Stored'
    <3> SUFFICES ASSUME NEW t \in Slots, Busy(t)', slots'[t].step = "complete"
                 PROVE  ArchiveOf(t)' \in object'
      BY DEF Stored
    <3>1. slots'[t] = slots[t] /\ Busy(t) /\ ArchiveOf(t)' = ArchiveOf(t)
      BY <1>2 DEF Busy, ArchiveOf, Key
    <3>2. ArchiveOf(t) \in object
      BY <3>1 DEF IInv, Stored
    <3>3. ArchiveOf(t) \notin due
      BY <3>1, <1>1, BusyFields DEF IInv, Own
    <3> QED BY <3>1, <3>2, <3>3, <1>4
  <2>5. SucceededHasArchive'
    BY <1>4 DEF IInv, SucceededHasArchive, Referred
  <2> QED BY <2>1, <2>2, <1>3, <2>3, <2>4, <2>5 DEF IInv
<1>5. CASE \E j \in Jobs : ExpireReady(j)
  <2>1. PICK j \in Jobs : ExpireReady(j)
    BY <1>5
  <2>2. job[j] \in Rows /\ job[j].archive \in object /\ job[j].state = "succeeded"
    BY <1>1, <2>1, RowsAre DEF ExpireReady, IInv, SucceededHasArchive
  <2>3. NoKey \notin object
    <3>1. NoKey \notin Archive
      BY DEF NoKey, Archive
    <3> QED BY <1>1, <3>1 DEF TypeOK
  <2> DEFINE row == [job[j] EXCEPT !.state = "expired"]
  <2>4. row \in Rows /\ row.archive = job[j].archive /\ row.state = "expired"
    BY <2>2 DEF Rows, States
  <2>5. job' = [job EXCEPT ![j] = row] /\ due' = due \cup {job[j].archive} /\ object' = object
    BY <2>1 DEF ExpireReady
  <2> HIDE DEF row
  <2>6. job' \in [Jobs -> Rows]
    BY <1>1, <2>4, <2>5, RowsAre
  <2>7. \A i \in Jobs : job'[i].archive = job[i].archive
                        /\ (job'[i].state = "succeeded" => job[i].state = "succeeded")
    BY <1>1, <2>4, <2>5, RowsAre
  <2> QED BY <1>4, <2>2, <2>3, <2>5, <2>6, <2>7
<1>6. CASE \E k \in due : CleanUp(k)
  BY <1>1, <1>4, <1>6, RowsAre DEF CleanUp
<1>7. CASE \E k \in object : Sweep(k)
  BY <1>1, <1>4, <1>7, RowsAre DEF Sweep, Busy
<1> QED BY <1>5, <1>6, <1>7

-----------------------------------------------------------------------------
(* Every step *)

LEMMA Preserved ==
    ASSUME IInv, [Next]_vars
    PROVE  IInv'
<1>1. CASE UNCHANGED vars
  BY <1>1 DEF vars, IInv, TypeOK, Fresh, Distinct, Own, Stored, SucceededHasArchive,
              Busy, TokenOf, ArchiveOf, Key
<1>2. ASSUME NEW j \in Jobs,
             Create(j) \/ Deadline(j) \/ AssetGoes(j) \/ Show(j) \/ RunOut(j) \/ ExpireReady(j)
      PROVE  IInv'
  BY <1>2, TimeStep, ExpiryStep, ArchiveStep
<1>3. ASSUME NEW s \in Slots, Claim(s) \/ Heartbeat(s) \/ Attempt(s) \/ Die(s)
      PROVE  IInv'
  BY <1>3, ClaimStep, SlotStep, UploadStep, CompleteStep DEF Attempt
<1> QED BY <1>1, <1>2, <1>3, ExpiryStep, ArchiveStep DEF Next

LEMMA Inductive == Spec => []IInv
<1>1. Init => IInv
  BY InitType
<1>2. IInv /\ [Next]_vars => IInv'
  BY Preserved
<1> QED BY <1>1, <1>2, PTL DEF Spec

(* Rows, attempts and archives stay well formed (gallery_export_store.go). *)
THEOREM Typed == Spec => []TypeOK
<1>1. IInv => TypeOK
  BY DEF IInv
<1> QED BY <1>1, Inductive, PTL

(* What succeeded has its archive in the storage, whatever attempts that   *)
(* were overtaken upload, delete or leave (processor.go).                  *)
THEOREM Downloadable == Spec => []SucceededHasArchive
<1>1. IInv => SucceededHasArchive
  BY DEF IInv
<1> QED BY <1>1, Inductive, PTL

-----------------------------------------------------------------------------
(* Outcomes *)

Final == \A j \in Jobs : job[j].state \in Over =>
    /\ job'[j].archive = job[j].archive
    /\ \/ job'[j].state = job[j].state
       \/ job[j].state = "succeeded" /\ job'[j].state = "expired"

(* A step that changes one row of an export that is not over. *)
LEMMA OthersKept ==
    ASSUME TypeOK, NEW j \in Jobs, job[j].state \notin Over, NEW row,
           job' = [job EXCEPT ![j] = row]
    PROVE  Final
BY RowsAre DEF Final

LEMMA FinalStep ==
    ASSUME IInv, [Next]_vars
    PROVE  Final
<1>1. TypeOK
  BY DEF IInv
<1>2. CASE UNCHANGED job
  BY <1>2 DEF Final
<1>3. ASSUME NEW j \in Jobs, Create(j) \/ Show(j)
      PROVE  Final
  BY <1>1, <1>3, OthersKept DEF Create, Show, Overdue, Over
<1>4. ASSUME NEW j \in Jobs, RunOut(j) \/ ExpireReady(j)
      PROVE  Final
  BY <1>1, <1>4, RowsAre DEF RunOut, ExpireReady, Final, Over, Rows
<1>5. CASE ExpireLate
  BY <1>1, <1>5, RowsAre DEF ExpireLate, Overdue, Final, Over
<1>6. ASSUME NEW s \in Slots, Claim(s)
      PROVE  Final
  <2>1. PICK j \in Jobs :
           /\ Eligible(j)
           /\ job' = [job EXCEPT ![j].state = "running", ![j].owner = Owner(s),
                                 ![j].lease = "valid", ![j].attempts = @ + 1]
    BY <1>6 DEF Claim
  <2>2. job[j].state \notin Over
    BY <2>1 DEF Eligible, Over
  <2>3. PICK row : job' = [job EXCEPT ![j] = row]
    BY <2>1
  <2> QED BY <1>1, <2>2, <2>3, OthersKept
<1>7. ASSUME NEW s \in Slots, Heartbeat(s) \/ Attempt(s)
      PROVE  Final
  <2>1. CASE UNCHANGED job
    BY <2>1, <1>2
  <2>2. CASE /\ job[slots[s].job].state = "running"
             /\ \E row : job' = [job EXCEPT ![slots[s].job] = row]
    <3>1. PICK row : job' = [job EXCEPT ![slots[s].job] = row]
      BY <2>2
    <3>2. slots[s].job \in Jobs
      <4>1. slots[s].step \in Steps
        BY <1>7 DEF Heartbeat, Attempt, Reload, Build, Upload, Complete, Fail, Steps
      <4> QED BY <1>1, <4>1, BusyFields DEF Attempts
    <3> QED BY <1>1, <2>2, <3>1, <3>2, OthersKept DEF Over
  <2>3. CASE Heartbeat(s)
    <3>1. UNCHANGED job \/ (Holds(s) /\ job' = [job EXCEPT ![slots[s].job].lease = "valid"])
      BY <2>3 DEF Heartbeat
    <3> QED BY <3>1, <2>1, <2>2 DEF Holds
  <2>4. CASE Reload(s) \/ Build(s) \/ Upload(s)
    BY <2>1, <2>4 DEF Reload, Build, Upload
  <2>5. CASE Complete(s)
    <3>1. UNCHANGED job \/ (Settles(s) /\ Completed(s))
      BY <2>5 DEF Complete
    <3> QED BY <3>1, <2>1, <2>2 DEF Settles, Holds, Completed
  <2>6. CASE Fail(s)
    <3>1. UNCHANGED job \/ (/\ job[slots[s].job].state = "running"
                            /\ \E row : job' = [job EXCEPT ![slots[s].job] = row])
      BY <2>6 DEF Fail
    <3> QED BY <3>1, <2>1, <2>2
  <2> QED BY <1>7, <2>3, <2>4, <2>5, <2>6 DEF Attempt
<1> QED BY <1>2, <1>3, <1>4, <1>5, <1>6, <1>7
      DEF Next, vars, Deadline, AssetGoes, Die, CleanUp, Sweep

(* No late attempt and no lost answer changes what an export has come to   *)
(* (CompleteJob, FailJob, expireLifecycleJobs).                            *)
THEOREM Decided == Spec => OutcomeIsFinal
<1>1. IInv /\ [Next]_vars => [Final]_vars
  BY FinalStep
<1>2. Spec => [][Final]_vars
  BY <1>1, Inductive, PTL DEF Spec
<1> QED BY <1>2 DEF OutcomeIsFinal, Final

=============================================================================
