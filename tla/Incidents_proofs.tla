-------------------------- MODULE Incidents_proofs --------------------------
(***************************************************************************)
(* Proofs about Incidents: types and resolved incidents for any number of   *)
(* overlapping runs, the other safety properties for one process, whose     *)
(* runs follow each other.                                                  *)
(***************************************************************************)
EXTENDS Incidents, HuginSchedule, FiniteSetTheorems, WellFoundedInduction, TLAPS

(* What a process does follows from what it was given and has read.         *)
Coherent(p) ==
    /\ proc[p].at \notin {"idle", "analyse"} /\ proc[p].subject = "check" =>
          proc[p].verdict # Unavailable
    /\ proc[p].at = "recover" => proc[p].verdict # Unavailable
    /\ proc[p].at \in {"notify", "mark"} => proc[p].row # 0
    /\ proc[p].at = "write" /\ Severity(p) = Normal => proc[p].row # 0

IInv ==
    /\ TypeOK
    /\ \A i \in DOMAIN rows : rows[i].second <= clock
    /\ \A p \in Processes : Coherent(p)

-----------------------------------------------------------------------------
(* A non-empty set of rows has a latest one.                                *)
LEMMA LatestExists ==
    ASSUME NEW n \in Nat, NEW S, S \subseteq 1..n, S # {}
    PROVE  \E m \in S : \A i \in S : i <= m
<1> DEFINE below == {j \in Nat : \E i \in S : j = n - i}
           less == {pair \in Nat \X Nat : pair[1] < pair[2]}
<1>1. IsWellFoundedOn(less, Nat)
  BY NatLessThanWellFounded DEF OpToRel
<1>2. below \subseteq Nat /\ \A i \in S : n - i \in below
  OBVIOUS
<1>3. \E j \in below : \A k \in below : <<k, j>> \notin less
  <2>1. below # {}
    BY <1>2
  <2> HIDE DEF below, less
  <2> QED
    BY <1>1, <1>2, <2>1, WFMin
<1>4. \A j, k \in Nat : <<k, j>> \notin less => j <= k
  OBVIOUS
<1>5. PICK j \in below : \A k \in below : j <= k
  <2> HIDE DEF below, less
  <2> QED
    BY <1>2, <1>3, <1>4
<1>6. PICK m \in S : j = n - m
  OBVIOUS
<1>7. ASSUME NEW i \in S
      PROVE  i <= m
  <2>1. n - m <= n - i
    BY <1>2, <1>5, <1>6
  <2> QED
    BY <2>1
<1> QED
  BY <1>7

(* ActiveIncident finds the latest active row, and says 0 when there is     *)
(* none.                                                                    *)
LEMMA ActiveIncidentFinds ==
    ASSUME TypeOK, NEW subject
    PROVE  IF Active(subject) = {} THEN ActiveIncident(subject) = 0
           ELSE ActiveIncident(subject) \in Active(subject)
<1>1. CASE Active(subject) = {}
  BY <1>1 DEF ActiveIncident
<1>2. CASE Active(subject) # {}
  <2>1. Active(subject) \subseteq 1..Len(rows) /\ Len(rows) \in Nat
    BY DEF TypeOK, Active
  <2>2. \E m \in Active(subject) : \A i \in Active(subject) : i <= m
    BY <1>2, <2>1, LatestExists
  <2> QED
    BY <1>2, <2>2 DEF ActiveIncident
<1> QED
  BY <1>1, <1>2

(* The fields of what a process does.                                       *)
LEMMA Fields ==
    ASSUME TypeOK, NEW p \in Processes
    PROVE  /\ proc[p] \in Doing
           /\ proc[p].verdict \in 0..3 /\ proc[p].alert \in {"yes", "no"}
           /\ proc[p].subject \in {"check", "analysis"}
           /\ proc[p].row \in 0..Len(rows) /\ proc[p].rank \in Nat
           /\ proc[p].last \in Int /\ proc[p].now \in 0..clock
           /\ Len(rows) \in Nat /\ clock \in Nat /\ faults \in Nat
BY IncidentsAssumption DEF TypeOK, Doing, Unavailable, Normal, Suspicious, Urgent

(* A step gives one process what it does next and leaves the others.        *)
LEMMA StepOf ==
    ASSUME TypeOK, NEW p \in Processes, NEW next \in Doing, Step(p, next)
    PROVE  /\ proc' \in [Processes -> Doing]
           /\ proc'[p] = next
           /\ \A q \in Processes \ {p} : proc'[q] = proc[q]
BY DEF TypeOK, Step

(* Where a process goes when an incident is dealt with.                     *)
LEMMA DoneIs ==
    ASSUME TypeOK, NEW p \in Processes
    PROVE  /\ Done(p) \in Doing
           /\ Done(p).row = 0 /\ Done(p).now = 0
           /\ Done(p).at \in {"idle", "read"} /\ Done(p).subject = "check"
           /\ Done(p).event = "none"
           /\ Done(p).at = "read" =>
                 /\ Done(p).verdict = proc[p].verdict /\ proc[p].verdict # Unavailable
                 /\ proc[p].subject = "analysis"
<1>1. proc[p].verdict \in 0..3 /\ proc[p].alert \in {"yes", "no"}
  BY Fields
<1>2. Idle \in Doing
  BY DEF Doing, Idle, Unavailable, Normal, Suspicious, Urgent, Never
<1>3. CASE proc[p].subject = "analysis" /\ proc[p].verdict # Unavailable
  <2>1. Done(p) = [at |-> "read", verdict |-> proc[p].verdict, alert |-> proc[p].alert,
                   subject |-> "check", event |-> "none", row |-> 0, rank |-> 0,
                   last |-> Never, now |-> 0]
    BY <1>3 DEF Done, Idle
  <2>2. Done(p) \in Doing
    BY <1>1, <2>1 DEF Doing, Unavailable, Normal, Suspicious, Urgent, Never
  <2> QED
    BY <1>3, <2>1, <2>2
<1>4. CASE ~(proc[p].subject = "analysis" /\ proc[p].verdict # Unavailable)
  <2>1. Done(p) = Idle
    BY <1>4 DEF Done
  <2> QED
    BY <1>2, <2>1 DEF Idle
<1> QED
  BY <1>3, <1>4

-----------------------------------------------------------------------------
(* What Coherent asks of a process, of the record that says what it does.   *)
SeverityOf(doing) ==
    IF doing.subject = "check" THEN doing.verdict
    ELSE IF doing.verdict = Unavailable THEN Urgent ELSE Normal

Fits(doing) ==
    /\ doing.at \notin {"idle", "analyse"} /\ doing.subject = "check" => doing.verdict # Unavailable
    /\ doing.at = "recover" => doing.verdict # Unavailable
    /\ doing.at \in {"notify", "mark"} => doing.row # 0
    /\ doing.at = "write" /\ SeverityOf(doing) = Normal => doing.row # 0

LEMMA CoherentFits ==
    ASSUME NEW p \in Processes
    PROVE  (Coherent(p) <=> Fits(proc[p])) /\ Severity(p) = SeverityOf(proc[p])
BY DEF Coherent, Fits, Severity, SeverityOf

(* A step of one process keeps the part of IInv that is about processes.    *)
LEMMA ProcKept ==
    ASSUME IInv, NEW p \in Processes, NEW next \in Doing, Step(p, next),
           Len(rows') \in Nat, Len(rows) <= Len(rows'), clock' = clock,
           next.row <= Len(rows'), next.now <= clock, Fits(next)
    PROVE  /\ proc' \in [Processes -> Doing]
           /\ \A q \in Processes : proc[q]'.row <= Len(rows') /\ proc[q]'.now <= clock'
           /\ \A q \in Processes : Coherent(q)'
<1>1. TypeOK
  BY DEF IInv
<1>2. /\ proc' \in [Processes -> Doing]
      /\ proc'[p] = next
      /\ \A q \in Processes \ {p} : proc'[q] = proc[q]
  BY <1>1, StepOf
<1>3. ASSUME NEW q \in Processes
      PROVE  proc[q]'.row <= Len(rows') /\ proc[q]'.now <= clock' /\ Coherent(q)'
  <2>1. CASE q = p
    BY <1>2, <2>1 DEF Coherent, Fits, Severity, SeverityOf
  <2>2. CASE q # p
    <3>1. proc'[q] = proc[q]
      BY <1>2, <2>2
    <3>2. proc[q].row \in 0..Len(rows) /\ proc[q].now \in 0..clock /\ Len(rows) \in Nat
          /\ clock \in Nat
      BY <1>1, Fields
    <3>3. Coherent(q)
      BY DEF IInv
    <3>4. Coherent(q)'
      BY <3>1, <3>3 DEF Coherent, Severity
    <3> QED
      BY <3>1, <3>2, <3>4
  <2> QED
    BY <2>1, <2>2
<1> QED
  BY <1>2, <1>3

(* Writing one row keeps the part that is about rows.                       *)
LEMMA RowWritten ==
    ASSUME IInv, NEW i \in DOMAIN rows, NEW r \in Row, rows' = [rows EXCEPT ![i] = r],
           clock' = clock, r.second = rows[i].second,
           r.notified = rows[i].notified \/ r.notified = clock
    PROVE  /\ rows' \in Seq(Row) /\ Len(rows') = Len(rows) /\ Len(rows) \in Nat
           /\ rows'[i] = r /\ \A j \in DOMAIN rows : j # i => rows'[j] = rows[j]
           /\ DOMAIN rows' = DOMAIN rows
           /\ \A j \in DOMAIN rows' :
                 rows'[j].notified = Never \/ rows'[j].notified \in rows'[j].second..clock'
           /\ \A j \in DOMAIN rows' : rows'[j].second <= clock'
<1>1. rows \in Seq(Row) /\ clock \in Nat
  BY IncidentsAssumption DEF IInv, TypeOK
<1>2. /\ rows' \in Seq(Row) /\ Len(rows') = Len(rows) /\ Len(rows) \in Nat
      /\ rows'[i] = r /\ \A j \in DOMAIN rows : j # i => rows'[j] = rows[j]
      /\ DOMAIN rows' = DOMAIN rows
  BY <1>1
<1>3. ASSUME NEW j \in DOMAIN rows
      PROVE  /\ rows'[j].notified = Never \/ rows'[j].notified \in rows'[j].second..clock'
             /\ rows'[j].second <= clock'
  <2>1. /\ rows[j].notified = Never \/ rows[j].notified \in rows[j].second..clock
        /\ rows[j].second <= clock
    BY DEF IInv, TypeOK
  <2>2. rows[j].second \in Nat
    <3>1. rows[j] \in Row
      BY <1>1
    <3> QED
      BY <3>1 DEF Row
  <2>3. CASE j = i
    BY <1>1, <1>2, <2>1, <2>2, <2>3
  <2>4. CASE j # i
    BY <1>2, <2>1, <2>4
  <2> QED
    BY <2>3, <2>4
<1> QED
  BY <1>2, <1>3

-----------------------------------------------------------------------------
(* What a process does with some of its fields replaced.                    *)
With(d, at, subject, event, row) ==
    [at |-> at, verdict |-> d.verdict, alert |-> d.alert, subject |-> subject, event |-> event,
     row |-> row, rank |-> d.rank, last |-> d.last, now |-> d.now]

LEMMA WithExcept ==
    ASSUME NEW d \in Doing
    PROVE  \A at, subject, event :
           /\ [d EXCEPT !.at = at] = With(d, at, d.subject, d.event, d.row)
           /\ [d EXCEPT !.at = at, !.subject = subject] = With(d, at, subject, d.event, d.row)
           /\ [d EXCEPT !.at = at, !.event = event] = With(d, at, d.subject, event, d.row)
<1> TAKE at, subject, event
<1>1. d = With(d, d.at, d.subject, d.event, d.row)
  BY DEF Doing, With
<1>2. [d EXCEPT !.at = at] = With(d, at, d.subject, d.event, d.row)
  BY <1>1 DEF With
<1> DEFINE moved == With(d, at, d.subject, d.event, d.row)
<1>3. [d EXCEPT !.at = at, !.subject = subject] = With(d, at, subject, d.event, d.row)
  <2>1. [d EXCEPT !.at = at, !.subject = subject] = [moved EXCEPT !.subject = subject]
    BY <1>2
  <2> QED
    BY <2>1 DEF With
<1>4. [d EXCEPT !.at = at, !.event = event] = With(d, at, d.subject, event, d.row)
  <2>1. [d EXCEPT !.at = at, !.event = event] = [moved EXCEPT !.event = event]
    BY <1>2
  <2> QED
    BY <2>1 DEF With
<1> QED
  BY <1>2, <1>3, <1>4

LEMMA WithIsDoing ==
    ASSUME NEW d \in Doing, NEW subject \in {"check", "analysis"},
           NEW at \in {"idle", "analyse", "recover", "read", "write", "notify", "mark"},
           NEW event \in {"none", "created", "updated", "resolved"}, NEW row \in Nat
    PROVE  With(d, at, subject, event, row) \in Doing
<1>1. /\ d.verdict \in Unavailable..Urgent /\ d.alert \in {"yes", "no"}
      /\ d.rank \in Nat /\ d.last \in Int /\ d.now \in Nat
  BY DEF Doing
<1> QED
  BY <1>1 DEF With, Doing

(* What ReadActive keeps of the active incident it found.                   *)
Found(d, i, rank, last, now) ==
    [at |-> "write", verdict |-> d.verdict, alert |-> d.alert, subject |-> d.subject,
     event |-> d.event, row |-> i, rank |-> rank, last |-> last, now |-> now]

LEMMA FoundExcept ==
    ASSUME NEW d \in Doing, NEW i \in Nat, NEW rank \in Nat, NEW last \in Int, NEW now \in Nat
    PROVE  /\ [d EXCEPT !.at = "write", !.row = i, !.now = now, !.rank = rank, !.last = last]
                 = Found(d, i, rank, last, now)
           /\ Found(d, i, rank, last, now) \in Doing
<1> DEFINE old == With(d, "write", d.subject, d.event, d.row)
<1>1. [d EXCEPT !.at = "write"] = old
  BY WithExcept
<1>2. [d EXCEPT !.at = "write", !.row = i, !.now = now, !.rank = rank, !.last = last]
         = [old EXCEPT !.row = i, !.now = now, !.rank = rank, !.last = last]
  BY <1>1
<1>3. [old EXCEPT !.row = i, !.now = now, !.rank = rank, !.last = last] = Found(d, i, rank, last, now)
  <2>1. [old EXCEPT !.row = i] = With(d, "write", d.subject, d.event, i)
    BY DEF With
  <2>2. [With(d, "write", d.subject, d.event, i) EXCEPT !.now = now]
           = Found(d, i, d.rank, d.last, now)
    BY DEF With, Found
  <2>3. [Found(d, i, d.rank, d.last, now) EXCEPT !.rank = rank] = Found(d, i, rank, d.last, now)
    BY DEF Found
  <2>4. [Found(d, i, rank, d.last, now) EXCEPT !.last = last] = Found(d, i, rank, last, now)
    BY DEF Found
  <2>5. [old EXCEPT !.row = i, !.now = now, !.rank = rank, !.last = last]
           = [[[[old EXCEPT !.row = i] EXCEPT !.now = now] EXCEPT !.rank = rank] EXCEPT !.last = last]
    OBVIOUS
  <2> QED
    BY <2>1, <2>2, <2>3, <2>4, <2>5
<1>4. Found(d, i, rank, last, now) \in Doing
  <2>1. d.verdict \in Unavailable..Urgent /\ d.alert \in {"yes", "no"}
        /\ d.subject \in {"check", "analysis"} /\ d.event \in {"none", "created", "updated", "resolved"}
    BY DEF Doing
  <2> QED
    BY <2>1 DEF Found, Doing
<1> QED
  BY <1>2, <1>3, <1>4

-----------------------------------------------------------------------------
(* A step of one process that writes no row, and one that writes one.       *)
LEMMA NoRowStep ==
    ASSUME IInv, NEW p \in Processes, NEW next \in Doing, Step(p, next),
           UNCHANGED <<rows, clock>>, faults' \in 0..MaxFaults,
           next.row <= Len(rows), next.now <= clock, Fits(next)
    PROVE  IInv'
<1>1. Len(rows) \in Nat
  BY DEF IInv, TypeOK
<1>2. /\ proc' \in [Processes -> Doing]
      /\ \A q \in Processes : proc[q]'.row <= Len(rows') /\ proc[q]'.now <= clock'
      /\ \A q \in Processes : Coherent(q)'
  BY <1>1, ProcKept
<1> QED
  BY <1>2 DEF IInv, TypeOK

LEMMA OneRowStep ==
    ASSUME IInv, NEW p \in Processes, NEW next \in Doing, Step(p, next),
           NEW i \in DOMAIN rows, NEW r \in Row, rows' = [rows EXCEPT ![i] = r],
           r.second = rows[i].second, r.notified = rows[i].notified \/ r.notified = clock,
           UNCHANGED <<clock, faults>>,
           next.row <= Len(rows), next.now <= clock, Fits(next)
    PROVE  IInv'
<1>1. /\ rows' \in Seq(Row) /\ Len(rows') = Len(rows) /\ Len(rows) \in Nat
      /\ \A j \in DOMAIN rows' :
            rows'[j].notified = Never \/ rows'[j].notified \in rows'[j].second..clock'
      /\ \A j \in DOMAIN rows' : rows'[j].second <= clock'
  BY RowWritten
<1>2. /\ proc' \in [Processes -> Doing]
      /\ \A q \in Processes : proc[q]'.row <= Len(rows') /\ proc[q]'.now <= clock'
      /\ \A q \in Processes : Coherent(q)'
  BY <1>1, ProcKept
<1> QED
  BY <1>1, <1>2 DEF IInv, TypeOK

-----------------------------------------------------------------------------
(* What each statement makes of what its process does, as a record.         *)
Analysing == With(Idle, "analyse", "check", "none", 0)

Answered(d, verdict, alert) ==
    [at |-> "recover", verdict |-> verdict, alert |-> alert, subject |-> d.subject,
     event |-> d.event, row |-> d.row, rank |-> d.rank, last |-> d.last, now |-> d.now]

LEMMA BeginRunGoes ==
    ASSUME IInv, NEW p \in Processes, BeginRun(p)
    PROVE  Step(p, Analysing) /\ Analysing \in Doing
<1>1. Idle \in Doing
  BY DEF Doing, Idle, Unavailable, Urgent, Never
<1>2. Idle.subject = "check" /\ Idle.event = "none" /\ Idle.row = 0
  BY DEF Idle
<1>3. [Idle EXCEPT !.at = "analyse"] = Analysing
  BY <1>1, <1>2, WithExcept DEF Analysing
<1>4. Analysing \in Doing
  BY <1>1, WithIsDoing DEF Analysing
<1> QED
  BY <1>3, <1>4 DEF BeginRun

LEMMA AnalyseGoes ==
    ASSUME IInv, NEW p \in Processes, NEW verdict \in Unavailable..Urgent, NEW alert \in {"yes", "no"},
           Analyse(p, verdict, alert)
    PROVE  LET next == IF verdict = Unavailable
                       THEN With(proc[p], "read", "analysis", proc[p].event, proc[p].row)
                       ELSE Answered(proc[p], verdict, alert)
           IN  Step(p, next) /\ next \in Doing
<1>1. proc[p] \in Doing
  BY DEF IInv, TypeOK
<1>2. proc[p].subject \in {"check", "analysis"} /\ proc[p].row \in Nat /\ proc[p].rank \in Nat
      /\ proc[p].last \in Int /\ proc[p].now \in Nat
      /\ proc[p].event \in {"none", "created", "updated", "resolved"}
  BY <1>1 DEF Doing
<1>3. CASE verdict = Unavailable
  <2>1. [proc[p] EXCEPT !.at = "read", !.subject = "analysis"]
           = With(proc[p], "read", "analysis", proc[p].event, proc[p].row)
    BY <1>1, WithExcept
  <2>2. With(proc[p], "read", "analysis", proc[p].event, proc[p].row) \in Doing
    BY <1>1, <1>2, WithIsDoing
  <2> QED
    BY <1>3, <2>1, <2>2 DEF Analyse
<1>4. CASE verdict # Unavailable
  <2> DEFINE old == With(proc[p], "recover", proc[p].subject, proc[p].event, proc[p].row)
  <2>1. [proc[p] EXCEPT !.at = "recover"] = old
    BY <1>1, WithExcept
  <2>2. [proc[p] EXCEPT !.at = "recover", !.verdict = verdict, !.alert = alert]
           = [[old EXCEPT !.verdict = verdict] EXCEPT !.alert = alert]
    BY <2>1
  <2>3. [old EXCEPT !.verdict = verdict] = Answered(proc[p], verdict, proc[p].alert)
    BY DEF With, Answered
  <2>4. [Answered(proc[p], verdict, proc[p].alert) EXCEPT !.alert = alert] = Answered(proc[p], verdict, alert)
    BY DEF Answered
  <2>5. Answered(proc[p], verdict, alert) \in Doing
    BY <1>2 DEF Answered, Doing
  <2>6. Step(p, [proc[p] EXCEPT !.at = "recover", !.verdict = verdict, !.alert = alert])
    BY <1>4 DEF Analyse
  <2>7. Step(p, Answered(proc[p], verdict, alert))
    BY <2>2, <2>3, <2>4, <2>6
  <2> QED
    BY <1>4, <2>5, <2>7
<1> QED
  BY <1>3, <1>4

LEMMA RecoverGoes ==
    ASSUME IInv, NEW p \in Processes, Recover(p)
    PROVE  LET next == With(proc[p], "read",
                            IF ActiveIncident("analysis") = 0 THEN "check" ELSE "analysis",
                            proc[p].event, proc[p].row)
           IN  Step(p, next) /\ next \in Doing
<1>1. proc[p] \in Doing
  BY DEF IInv, TypeOK
<1>2. proc[p].row \in Nat /\ proc[p].event \in {"none", "created", "updated", "resolved"}
  BY <1>1 DEF Doing
<1> DEFINE subject == IF ActiveIncident("analysis") = 0 THEN "check" ELSE "analysis"
<1>3. subject \in {"check", "analysis"}
  OBVIOUS
<1>4. Step(p, [proc[p] EXCEPT !.at = "read", !.subject = subject])
  BY DEF Recover
<1> HIDE DEF subject
<1>5. [proc[p] EXCEPT !.at = "read", !.subject = subject]
        = With(proc[p], "read", subject, proc[p].event, proc[p].row)
  BY <1>1, WithExcept
<1>6. With(proc[p], "read", subject, proc[p].event, proc[p].row) \in Doing
  BY <1>1, <1>2, <1>3, WithIsDoing
<1>7. Step(p, With(proc[p], "read", subject, proc[p].event, proc[p].row))
  BY <1>4, <1>5
<1> QED
  BY <1>6, <1>7 DEF subject

(* A process that goes on to tell the operator, or has told.                *)
LEMMA GoesToTell ==
    ASSUME IInv, NEW p \in Processes, NEW event \in {"created", "updated", "resolved"}, NEW row \in Nat
    PROVE  /\ [proc[p] EXCEPT !.at = "notify", !.event = event]
                 = With(proc[p], "notify", proc[p].subject, event, proc[p].row)
           /\ [proc[p] EXCEPT !.at = "notify", !.event = event, !.row = row]
                 = With(proc[p], "notify", proc[p].subject, event, row)
           /\ [proc[p] EXCEPT !.at = "mark"]
                 = With(proc[p], "mark", proc[p].subject, proc[p].event, proc[p].row)
           /\ With(proc[p], "notify", proc[p].subject, event, row) \in Doing
           /\ With(proc[p], "notify", proc[p].subject, event, proc[p].row) \in Doing
           /\ With(proc[p], "mark", proc[p].subject, proc[p].event, proc[p].row) \in Doing
<1>1. proc[p] \in Doing
  BY DEF IInv, TypeOK
<1>2. proc[p].row \in Nat /\ proc[p].event \in {"none", "created", "updated", "resolved"}
      /\ proc[p].subject \in {"check", "analysis"}
  BY <1>1 DEF Doing
<1>3. /\ [proc[p] EXCEPT !.at = "notify", !.event = event]
            = With(proc[p], "notify", proc[p].subject, event, proc[p].row)
      /\ [proc[p] EXCEPT !.at = "notify", !.event = event, !.row = row]
            = With(proc[p], "notify", proc[p].subject, event, row)
      /\ [proc[p] EXCEPT !.at = "mark"]
            = With(proc[p], "mark", proc[p].subject, proc[p].event, proc[p].row)
  <2>1. [proc[p] EXCEPT !.at = "notify", !.event = event]
           = With(proc[p], "notify", proc[p].subject, event, proc[p].row)
    BY <1>1, WithExcept
  <2>2. [proc[p] EXCEPT !.at = "notify", !.event = event, !.row = row]
           = With(proc[p], "notify", proc[p].subject, event, row)
    <3>1. [proc[p] EXCEPT !.at = "notify", !.event = event, !.row = row]
             = [With(proc[p], "notify", proc[p].subject, event, proc[p].row) EXCEPT !.row = row]
      BY <2>1
    <3> QED
      BY <3>1 DEF With
  <2>3. [proc[p] EXCEPT !.at = "mark"]
           = With(proc[p], "mark", proc[p].subject, proc[p].event, proc[p].row)
    BY <1>1, WithExcept
  <2> QED
    BY <2>1, <2>2, <2>3
<1>4. With(proc[p], "notify", proc[p].subject, event, row) \in Doing
  BY <1>1, <1>2, WithIsDoing
<1>5. With(proc[p], "notify", proc[p].subject, event, proc[p].row) \in Doing
  BY <1>1, <1>2, WithIsDoing
<1>6. With(proc[p], "mark", proc[p].subject, proc[p].event, proc[p].row) \in Doing
  BY <1>1, <1>2, WithIsDoing
<1> QED
  BY <1>3, <1>4, <1>5, <1>6

(* The active incident as ReadActive finds it.                              *)
LEMMA ReadActiveGoes ==
    ASSUME IInv, NEW p \in Processes, ReadActive(p)
    PROVE  \/ Step(p, Done(p)) /\ ActiveIncident(proc[p].subject) = 0
           \/ LET i == ActiveIncident(proc[p].subject)
                  next == Found(proc[p], i, IF i = 0 THEN 0 ELSE rows[i].severity,
                                IF i = 0 THEN Never ELSE rows[i].notified, clock)
              IN  /\ Step(p, next) /\ next \in Doing /\ i \in 0..Len(rows)
                  /\ i = 0 => Severity(p) # Normal
                  /\ i = 0 => Active(proc[p].subject) = {}
                  /\ i # 0 => i \in Active(proc[p].subject)
<1> DEFINE i == ActiveIncident(proc[p].subject)
           rank == IF i = 0 THEN 0 ELSE rows[i].severity
           last == IF i = 0 THEN Never ELSE rows[i].notified
<1>1. proc[p] \in Doing /\ clock \in Nat
  BY IncidentsAssumption DEF IInv, TypeOK
<1>2. /\ i \in 0..Len(rows)
      /\ i = 0 => Active(proc[p].subject) = {}
      /\ i # 0 => i \in Active(proc[p].subject)
  <2>1. Active(proc[p].subject) \subseteq 1..Len(rows) /\ Len(rows) \in Nat
    BY DEF Active, IInv, TypeOK
  <2>2. TypeOK
    BY DEF IInv
  <2> QED
    BY <2>1, <2>2, ActiveIncidentFinds
<1>3. rank \in Nat /\ last \in Int
  <2>1. CASE i = 0
    BY <2>1 DEF Never
  <2>2. CASE i # 0
    <3>1. rows[i] \in Row
      BY <1>2, <2>2 DEF IInv, TypeOK
    <3>2. rows[i].severity \in Nat /\ rows[i].notified \in Int
      BY <3>1 DEF Row, Suspicious, Urgent
    <3> QED
      BY <2>2, <3>2
  <2> QED
    BY <2>1, <2>2
<1>4. \/ Step(p, Done(p)) /\ i = 0
      \/ /\ Step(p, [proc[p] EXCEPT !.at = "write", !.row = i, !.now = clock, !.rank = rank, !.last = last])
         /\ i = 0 => Severity(p) # Normal
  BY DEF ReadActive
<1> HIDE DEF i, rank, last
<1>5. [proc[p] EXCEPT !.at = "write", !.row = i, !.now = clock, !.rank = rank, !.last = last]
         = Found(proc[p], i, rank, last, clock)
      /\ Found(proc[p], i, rank, last, clock) \in Doing
  <2>1. i \in Nat
    BY <1>2 DEF IInv, TypeOK
  <2> QED
    BY <1>1, <1>3, <2>1, FoundExcept
<1> QED
  BY <1>2, <1>4, <1>5 DEF i, rank, last

-----------------------------------------------------------------------------
(* The rows the statements write.                                           *)
LEMMA RowFields ==
    ASSUME IInv, NEW i \in DOMAIN rows
    PROVE  /\ rows[i] \in Row
           /\ rows[i].subject \in {"check", "analysis"} /\ rows[i].second \in 0..clock
           /\ rows[i].status \in {"active", "resolved"} /\ rows[i].severity \in Suspicious..Urgent
           /\ rows[i].notified \in Int
           /\ rows[i].notified = Never \/ rows[i].notified \in rows[i].second..clock
<1>1. rows[i] \in Row
  BY DEF IInv, TypeOK
<1>2. /\ rows[i].subject \in {"check", "analysis"} /\ rows[i].second \in Nat
      /\ rows[i].status \in {"active", "resolved"} /\ rows[i].severity \in Suspicious..Urgent
      /\ rows[i].notified \in Int
  BY <1>1 DEF Row
<1>3. rows[i].second <= clock
      /\ (rows[i].notified = Never \/ rows[i].notified \in rows[i].second..clock)
  BY DEF IInv, TypeOK
<1> QED
  BY <1>1, <1>2, <1>3

LEMMA RowsWithExcept ==
    ASSUME IInv, NEW i \in DOMAIN rows, NEW status \in {"active", "resolved"},
           NEW severity \in Suspicious..Urgent, NEW notified \in Int
    PROVE  /\ [rows EXCEPT ![i].status = status] = [rows EXCEPT ![i] = [rows[i] EXCEPT !.status = status]]
           /\ [rows EXCEPT ![i].severity = severity] = [rows EXCEPT ![i] = [rows[i] EXCEPT !.severity = severity]]
           /\ [rows EXCEPT ![i].notified = notified] = [rows EXCEPT ![i] = [rows[i] EXCEPT !.notified = notified]]
           /\ LET r == [rows[i] EXCEPT !.status = status]
              IN  r \in Row /\ r.subject = rows[i].subject /\ r.second = rows[i].second
                  /\ r.notified = rows[i].notified /\ r.status = status
           /\ LET r == [rows[i] EXCEPT !.severity = severity]
              IN  r \in Row /\ r.subject = rows[i].subject /\ r.second = rows[i].second
                  /\ r.notified = rows[i].notified /\ r.status = rows[i].status
           /\ LET r == [rows[i] EXCEPT !.notified = notified]
              IN  r \in Row /\ r.subject = rows[i].subject /\ r.second = rows[i].second
                  /\ r.notified = notified /\ r.status = rows[i].status
<1>1. rows[i] \in Row
  BY RowFields
<1>2. [rows EXCEPT ![i].status = status] = [rows EXCEPT ![i] = [rows[i] EXCEPT !.status = status]]
  OBVIOUS
<1>3. [rows EXCEPT ![i].severity = severity] = [rows EXCEPT ![i] = [rows[i] EXCEPT !.severity = severity]]
  OBVIOUS
<1>4. [rows EXCEPT ![i].notified = notified] = [rows EXCEPT ![i] = [rows[i] EXCEPT !.notified = notified]]
  OBVIOUS
<1>5. LET r == [rows[i] EXCEPT !.status = status]
      IN  r \in Row /\ r.subject = rows[i].subject /\ r.second = rows[i].second
          /\ r.notified = rows[i].notified /\ r.status = status
  BY <1>1 DEF Row
<1>6. LET r == [rows[i] EXCEPT !.severity = severity]
      IN  r \in Row /\ r.subject = rows[i].subject /\ r.second = rows[i].second
          /\ r.notified = rows[i].notified /\ r.status = rows[i].status
  BY <1>1 DEF Row
<1>7. LET r == [rows[i] EXCEPT !.notified = notified]
      IN  r \in Row /\ r.subject = rows[i].subject /\ r.second = rows[i].second
          /\ r.notified = notified /\ r.status = rows[i].status
  BY <1>1 DEF Row
<1> QED
  BY <1>2, <1>3, <1>4, <1>5, <1>6, <1>7

-----------------------------------------------------------------------------
(* Every action keeps IInv.                                                 *)
LEMMA Dones ==
    ASSUME IInv, NEW p \in Processes
    PROVE  /\ Done(p) \in Doing /\ Fits(Done(p)) /\ Done(p).row <= Len(rows) /\ Done(p).now <= clock
           /\ Idle \in Doing /\ Fits(Idle) /\ Idle.row <= Len(rows) /\ Idle.now <= clock
<1>1. TypeOK /\ Len(rows) \in Nat /\ clock \in Nat
  BY IncidentsAssumption DEF IInv, TypeOK
<1>2. Idle \in Doing /\ Idle.row = 0 /\ Idle.now = 0 /\ Fits(Idle)
  BY DEF Idle, Doing, Unavailable, Urgent, Never, Fits
<1>3. Fits(Done(p))
  BY <1>1, DoneIs DEF Fits
<1> QED
  BY <1>1, <1>2, <1>3, DoneIs

LEMMA ReadsKeep ==
    ASSUME IInv, NEW p \in Processes,
           \/ BeginRun(p) \/ Verdict(p) \/ Analyse(p, Unavailable, "no") \/ Recover(p) \/ ReadActive(p)
    PROVE  IInv'
<1>1. TypeOK /\ faults \in 0..MaxFaults /\ Coherent(p)
  BY DEF IInv, TypeOK
<1>2. /\ proc[p].row \in 0..Len(rows) /\ proc[p].now \in 0..clock /\ Len(rows) \in Nat /\ clock \in Nat
  BY <1>1, Fields
<1>3. CASE BeginRun(p)
  <2>1. Step(p, Analysing) /\ Analysing \in Doing
    BY <1>3, BeginRunGoes
  <2>2. Fits(Analysing) /\ Analysing.row = 0 /\ Analysing.now = 0
    BY DEF Fits, Analysing, With, Idle
  <2>3. UNCHANGED <<rows, clock, faults>>
    BY <1>3 DEF BeginRun
  <2> QED
    BY <1>1, <1>2, <2>1, <2>2, <2>3, NoRowStep
<1>4. ASSUME NEW verdict \in Unavailable..Urgent, NEW alert \in {"yes", "no"}, Analyse(p, verdict, alert)
      PROVE  IInv'
  <2>1. UNCHANGED <<rows, clock, faults>>
    BY <1>4 DEF Analyse
  <2>2. CASE verdict = Unavailable
    <3> DEFINE next == With(proc[p], "read", "analysis", proc[p].event, proc[p].row)
    <3>1. Step(p, next) /\ next \in Doing
      BY <1>4, <2>2, AnalyseGoes
    <3>2. Fits(next) /\ next.row = proc[p].row /\ next.now = proc[p].now
      BY DEF Fits, With
    <3> QED
      BY <1>1, <1>2, <2>1, <3>1, <3>2, NoRowStep
  <2>3. CASE verdict # Unavailable
    <3> DEFINE next == Answered(proc[p], verdict, alert)
    <3>1. Step(p, next) /\ next \in Doing
      BY <1>4, <2>3, AnalyseGoes
    <3>2. Fits(next) /\ next.row = proc[p].row /\ next.now = proc[p].now
      BY <2>3 DEF Fits, Answered
    <3> QED
      BY <1>1, <1>2, <2>1, <3>1, <3>2, NoRowStep
  <2> QED
    BY <2>2, <2>3
<1>5. CASE Verdict(p) \/ Analyse(p, Unavailable, "no")
  <2>1. Normal..Urgent \subseteq Unavailable..Urgent /\ Unavailable \in Unavailable..Urgent
    BY DEF Unavailable, Normal, Urgent
  <2> QED
    BY <1>4, <1>5, <2>1 DEF Verdict
<1>6. CASE Recover(p)
  <2> DEFINE subject == IF ActiveIncident("analysis") = 0 THEN "check" ELSE "analysis"
             next == With(proc[p], "read", subject, proc[p].event, proc[p].row)
  <2>1. Step(p, next) /\ next \in Doing
    BY <1>6, RecoverGoes
  <2>2. UNCHANGED <<rows, clock, faults>> /\ proc[p].at = "recover"
    BY <1>6 DEF Recover
  <2>3. Fits(next) /\ next.row = proc[p].row /\ next.now = proc[p].now
    <3>1. proc[p].verdict # Unavailable
      BY <1>1, <2>2 DEF Coherent
    <3> QED
      BY <3>1 DEF Fits, With
  <2> QED
    BY <1>1, <1>2, <2>1, <2>2, <2>3, NoRowStep
<1>7. CASE ReadActive(p)
  <2>1. UNCHANGED <<rows, clock, faults>> /\ proc[p].at = "read"
    BY <1>7 DEF ReadActive
  <2>2. CASE Step(p, Done(p))
    BY <1>1, <2>1, <2>2, Dones, NoRowStep
  <2>3. CASE ~Step(p, Done(p))
    <3> DEFINE i == ActiveIncident(proc[p].subject)
               next == Found(proc[p], i, IF i = 0 THEN 0 ELSE rows[i].severity,
                             IF i = 0 THEN Never ELSE rows[i].notified, clock)
    <3>1. Step(p, next) /\ next \in Doing /\ i \in 0..Len(rows) /\ (i = 0 => Severity(p) # Normal)
      BY <1>7, <2>3, ReadActiveGoes
    <3>2. next.row = i /\ next.now = clock /\ next.at = "write" /\ next.subject = proc[p].subject
          /\ next.verdict = proc[p].verdict
      BY DEF Found
    <3> HIDE DEF next, i
    <3>3. Fits(next)
      <4>1. proc[p].subject = "check" => proc[p].verdict # Unavailable
        BY <1>1, <2>1 DEF Coherent
      <4>2. SeverityOf(next) = Severity(p)
        BY <3>2 DEF SeverityOf, Severity
      <4> QED
        BY <3>1, <3>2, <4>1, <4>2 DEF Fits
    <3> QED
      BY <1>1, <1>2, <2>1, <3>1, <3>2, <3>3, NoRowStep
  <2> QED
    BY <2>2, <2>3
<1> QED
  BY <1>3, <1>5, <1>6, <1>7

LEMMA WritesKeep ==
    ASSUME IInv, NEW p \in Processes,
           \/ Resolve(p) \/ Create(p) \/ CreateConflicts(p) \/ Update(p) \/ Notify(p) \/ Mark(p)
    PROVE  IInv'
<1>1. TypeOK /\ faults \in 0..MaxFaults /\ Coherent(p) /\ rows \in Seq(Row)
  BY DEF IInv, TypeOK
<1>2. /\ proc[p].row \in 0..Len(rows) /\ proc[p].now \in 0..clock /\ Len(rows) \in Nat /\ clock \in Nat
      /\ proc[p].subject \in {"check", "analysis"} /\ proc[p].verdict \in 0..3
  BY <1>1, Fields
<1>3. proc[p].row # 0 => proc[p].row \in DOMAIN rows
  BY <1>1, <1>2
<1>4. proc[p].at \in {"write", "notify", "mark"} =>
         (proc[p].subject = "check" => proc[p].verdict # Unavailable)
  BY <1>1 DEF Coherent
<1> DEFINE told(event) == With(proc[p], "notify", proc[p].subject, event, proc[p].row)
<1>5. ASSUME proc[p].at = "write", proc[p].row # 0, NEW event \in {"created", "updated", "resolved"}
      PROVE  /\ told(event) \in Doing /\ Fits(told(event))
             /\ told(event).row <= Len(rows) /\ told(event).now <= clock
             /\ [proc[p] EXCEPT !.at = "notify", !.event = event] = told(event)
  <2>1. told(event) \in Doing /\ [proc[p] EXCEPT !.at = "notify", !.event = event] = told(event)
    BY <1>5, GoesToTell
  <2>2. told(event).row <= Len(rows) /\ told(event).now <= clock
    BY <1>2 DEF With
  <2>3. Fits(told(event))
    BY <1>4, <1>5 DEF Fits, With
  <2> QED
    BY <2>1, <2>2, <2>3
<1> HIDE DEF told
<1>6. CASE Resolve(p)
  <2> DEFINE r == [rows[proc[p].row] EXCEPT !.status = "resolved"]
  <2>1. proc[p].at = "write" /\ proc[p].row # 0 /\ UNCHANGED <<clock, faults>>
    BY <1>1, <1>6 DEF Resolve, Coherent
  <2>2. proc[p].row \in DOMAIN rows
    BY <1>3, <2>1
  <2>3. /\ [rows EXCEPT ![proc[p].row].status = "resolved"] = [rows EXCEPT ![proc[p].row] = r]
        /\ r \in Row /\ r.second = rows[proc[p].row].second /\ r.notified = rows[proc[p].row].notified
    <3>1. Suspicious \in Suspicious..Urgent /\ 0 \in Int
      BY DEF Suspicious, Urgent
    <3> QED
      BY <2>2, <3>1, RowsWithExcept
  <2>4. rows' = [rows EXCEPT ![proc[p].row] = r]
    BY <1>6, <2>3 DEF Resolve
  <2> HIDE DEF r
  <2>5. CASE Step(p, Done(p))
    BY <2>1, <2>2, <2>3, <2>4, <2>5, Dones, OneRowStep
  <2>6. CASE Step(p, told("resolved"))
    BY <1>5, <2>1, <2>2, <2>3, <2>4, <2>6, OneRowStep
  <2>7. Step(p, Done(p)) \/ Step(p, told("resolved"))
    <3>1. [proc[p] EXCEPT !.at = "notify", !.event = "resolved"] = told("resolved")
      BY <1>5, <2>1
    <3> QED
      BY <1>6, <3>1 DEF Resolve
  <2> QED
    BY <2>5, <2>6, <2>7
<1>7. CASE Create(p)
  <2> DEFINE next == With(proc[p], "notify", proc[p].subject, "created", Len(rows) + 1)
  <2>1. /\ proc[p].at = "write" /\ Severity(p) # Normal /\ UNCHANGED <<clock, faults>>
        /\ rows' = Append(rows, NewRow(p))
    BY <1>7 DEF Create
  <2>2. Step(p, next) /\ next \in Doing
    <3>1. Len(rows) + 1 \in Nat
      BY <1>2
    <3>2. next \in Doing
      BY <3>1, GoesToTell
    <3>3. [proc[p] EXCEPT !.at = "notify", !.event = "created"]
             = With(proc[p], "notify", proc[p].subject, "created", proc[p].row)
      BY <3>1, GoesToTell
    <3>4. [proc[p] EXCEPT !.at = "notify", !.event = "created", !.row = Len(rows) + 1]
             = [With(proc[p], "notify", proc[p].subject, "created", proc[p].row) EXCEPT !.row = Len(rows) + 1]
      BY <3>3
    <3>5. [proc[p] EXCEPT !.at = "notify", !.event = "created", !.row = Len(rows) + 1] = next
      BY <3>4 DEF With
    <3> QED
      BY <1>7, <3>2, <3>5 DEF Create
  <2>3. NewRow(p) \in Row /\ NewRow(p).second \in 0..clock /\ NewRow(p).notified = Never
    <3>1. Severity(p) \in Suspicious..Urgent
      BY <1>2, <1>4, <2>1 DEF Severity, Unavailable, Normal, Suspicious, Urgent
    <3> QED
      BY <1>2, <3>1 DEF NewRow, Row, Never
  <2>4. next.row = Len(rows) + 1 /\ next.now = proc[p].now /\ Fits(next)
    BY <1>2, <1>4, <2>1 DEF With, Fits
  <2> HIDE DEF next
  <2>5. /\ rows' \in Seq(Row) /\ Len(rows') = Len(rows) + 1
        /\ rows'[Len(rows) + 1] = NewRow(p) /\ \A j \in DOMAIN rows : rows'[j] = rows[j]
        /\ DOMAIN rows' = DOMAIN rows \cup {Len(rows) + 1}
    BY <1>1, <1>2, <2>1, <2>3
  <2>6. ASSUME NEW j \in DOMAIN rows'
        PROVE  /\ rows'[j].notified = Never \/ rows'[j].notified \in rows'[j].second..clock'
               /\ rows'[j].second <= clock'
    <3>1. CASE j \in DOMAIN rows
      <4>1. /\ rows[j].second <= clock
            /\ rows[j].notified = Never \/ rows[j].notified \in rows[j].second..clock
        BY <3>1, RowFields
      <4> QED
        BY <2>1, <2>5, <3>1, <4>1
    <3>2. CASE j = Len(rows) + 1
      BY <2>1, <2>3, <2>5, <3>2
    <3> QED
      BY <2>5, <3>1, <3>2
  <2>7. /\ proc' \in [Processes -> Doing]
        /\ \A q \in Processes : proc[q]'.row <= Len(rows') /\ proc[q]'.now <= clock'
        /\ \A q \in Processes : Coherent(q)'
    BY <1>2, <2>1, <2>2, <2>4, <2>5, ProcKept
  <2> QED
    BY <1>1, <2>1, <2>5, <2>6, <2>7 DEF IInv, TypeOK
<1>8. CASE CreateConflicts(p)
  BY <1>1, <1>8, Dones, NoRowStep DEF CreateConflicts
<1>9. CASE Update(p)
  <2> DEFINE r == [rows[proc[p].row] EXCEPT !.severity = Severity(p)]
  <2>1. proc[p].at = "write" /\ proc[p].row # 0 /\ Severity(p) # Normal /\ UNCHANGED <<clock, faults>>
    BY <1>9 DEF Update
  <2>2. proc[p].row \in DOMAIN rows
    BY <1>3, <2>1
  <2>3. Severity(p) \in Suspicious..Urgent
    BY <1>2, <1>4, <2>1 DEF Severity, Unavailable, Normal, Suspicious, Urgent
  <2>4. /\ [rows EXCEPT ![proc[p].row].severity = Severity(p)] = [rows EXCEPT ![proc[p].row] = r]
        /\ r \in Row /\ r.second = rows[proc[p].row].second /\ r.notified = rows[proc[p].row].notified
    <3>1. "active" \in {"active", "resolved"} /\ 0 \in Int
      OBVIOUS
    <3>2. LET sev == Severity(p) IN
          /\ [rows EXCEPT ![proc[p].row].severity = sev]
                = [rows EXCEPT ![proc[p].row] = [rows[proc[p].row] EXCEPT !.severity = sev]]
          /\ [rows[proc[p].row] EXCEPT !.severity = sev] \in Row
          /\ [rows[proc[p].row] EXCEPT !.severity = sev].second = rows[proc[p].row].second
          /\ [rows[proc[p].row] EXCEPT !.severity = sev].notified = rows[proc[p].row].notified
      BY <2>2, <2>3, <3>1, RowsWithExcept
    <3> QED
      BY <3>2
  <2>5. rows' = [rows EXCEPT ![proc[p].row] = r]
    BY <1>9, <2>4 DEF Update
  <2> HIDE DEF r
  <2>6. CASE Step(p, Done(p))
    BY <2>1, <2>2, <2>4, <2>5, <2>6, Dones, OneRowStep
  <2>7. CASE Step(p, told("updated"))
    BY <1>5, <2>1, <2>2, <2>4, <2>5, <2>7, OneRowStep
  <2>8. Step(p, Done(p)) \/ Step(p, told("updated"))
    <3>1. [proc[p] EXCEPT !.at = "notify", !.event = "updated"] = told("updated")
      BY <1>5, <2>1
    <3> QED
      BY <1>9, <3>1 DEF Update
  <2> QED
    BY <2>6, <2>7, <2>8
<1>10. CASE Notify(p)
  <2> DEFINE next == With(proc[p], "mark", proc[p].subject, proc[p].event, proc[p].row)
  <2>1. proc[p].at = "notify" /\ UNCHANGED <<rows, clock, faults>>
    BY <1>10 DEF Notify
  <2>2. next \in Doing /\ [proc[p] EXCEPT !.at = "mark"] = next
    BY GoesToTell, <1>2
  <2>3. Step(p, next)
    BY <1>10, <2>2 DEF Notify
  <2>4. Fits(next) /\ next.row = proc[p].row /\ next.now = proc[p].now
    BY <1>1, <1>4, <2>1 DEF Fits, With, Coherent
  <2> HIDE DEF next
  <2> QED
    BY <1>1, <1>2, <2>1, <2>2, <2>3, <2>4, NoRowStep
<1>11. CASE Mark(p)
  <2> DEFINE r == [rows[proc[p].row] EXCEPT !.notified = clock]
  <2>1. proc[p].at = "mark" /\ proc[p].row # 0 /\ UNCHANGED <<clock, faults>> /\ Step(p, Done(p))
    BY <1>1, <1>11 DEF Mark, Coherent
  <2>2. proc[p].row \in DOMAIN rows
    BY <1>3, <2>1
  <2>3. /\ [rows EXCEPT ![proc[p].row].notified = clock] = [rows EXCEPT ![proc[p].row] = r]
        /\ r \in Row /\ r.second = rows[proc[p].row].second /\ r.notified = clock
    <3>1. Suspicious \in Suspicious..Urgent /\ clock \in Int
      BY <1>2 DEF Suspicious, Urgent
    <3> QED
      BY <2>2, <3>1, RowsWithExcept
  <2>4. rows' = [rows EXCEPT ![proc[p].row] = r]
    BY <1>11, <2>3 DEF Mark
  <2> HIDE DEF r
  <2> QED
    BY <2>1, <2>2, <2>3, <2>4, Dones, OneRowStep
<1> QED
  BY <1>6, <1>7, <1>8, <1>9, <1>10, <1>11

LEMMA FaultsKeep ==
    ASSUME IInv, NEW p \in Processes, StatementFails(p) \/ NotifyFails(p) \/ Crash(p)
    PROVE  IInv'
<1>1. faults' \in 0..MaxFaults /\ UNCHANGED <<rows, clock>> /\ (Step(p, Idle) \/ Step(p, Done(p)))
  BY IncidentsAssumption DEF IInv, TypeOK, StatementFails, NotifyFails, Crash, Fault
<1> QED
  BY <1>1, Dones, NoRowStep

LEMMA HandleResolveKeeps ==
    ASSUME IInv, HandleResolve
    PROVE  IInv'
<1>1. PICK i \in DOMAIN rows : rows' = [rows EXCEPT ![i].status = "resolved"]
  BY DEF HandleResolve
<1>2. UNCHANGED <<proc, clock, faults>>
  BY DEF HandleResolve
<1> DEFINE r == [rows[i] EXCEPT !.status = "resolved"]
<1>3. /\ rows' = [rows EXCEPT ![i] = r]
      /\ r \in Row /\ r.second = rows[i].second /\ r.notified = rows[i].notified
  <2>1. Suspicious \in Suspicious..Urgent /\ 0 \in Int
    BY DEF Suspicious, Urgent
  <2> QED
    BY <1>1, <2>1, RowsWithExcept
<1> HIDE DEF r
<1>4. /\ rows' \in Seq(Row) /\ Len(rows') = Len(rows)
      /\ \A j \in DOMAIN rows' :
            rows'[j].notified = Never \/ rows'[j].notified \in rows'[j].second..clock'
      /\ \A j \in DOMAIN rows' : rows'[j].second <= clock'
  BY <1>2, <1>3, RowWritten
<1>5. \A q \in Processes : Coherent(q)'
  BY <1>2 DEF IInv, Coherent, Severity
<1> QED
  BY <1>2, <1>4, <1>5 DEF IInv, TypeOK

LEMMA TickKeeps ==
    ASSUME IInv, Tick
    PROVE  IInv'
<1>1. clock \in Nat /\ clock' = clock + 1 /\ clock' \in 0..MaxTime /\ UNCHANGED <<rows, proc, faults>>
  BY IncidentsAssumption DEF IInv, TypeOK, Tick
<1>2. ASSUME NEW i \in DOMAIN rows
      PROVE  /\ rows[i].second <= clock'
             /\ rows[i].notified = Never \/ rows[i].notified \in rows[i].second..clock'
  <2>1. /\ rows[i].second \in 0..clock
        /\ rows[i].notified = Never \/ rows[i].notified \in rows[i].second..clock
    BY <1>2, RowFields
  <2> QED
    BY <1>1, <2>1
<1>3. \A q \in Processes : Coherent(q)'
  BY <1>1 DEF IInv, Coherent, Severity
<1>4. ASSUME NEW q \in Processes
      PROVE  proc[q].now <= clock'
  <2>1. proc[q].now \in 0..clock
    BY Fields DEF IInv
  <2> QED
    BY <1>1, <2>1
<1> QED
  BY <1>1, <1>2, <1>3, <1>4 DEF IInv, TypeOK

LEMMA StartsWell == Init => IInv
BY IncidentsAssumption DEF Init, IInv, TypeOK, Coherent, Idle, Doing, Row, Unavailable, Urgent, Never

LEMMA Keeps == IInv /\ [Next]_vars => IInv'
<1> SUFFICES ASSUME IInv, [Next]_vars
             PROVE  IInv'
  OBVIOUS
<1>1. CASE UNCHANGED vars
  BY <1>1 DEF vars, IInv, TypeOK, Coherent, Severity
<1>2. ASSUME NEW p \in Processes,
             \/ BeginRun(p) \/ Verdict(p) \/ Analyse(p, Unavailable, "no") \/ Statement(p)
             \/ StatementFails(p) \/ NotifyFails(p) \/ Crash(p)
      PROVE  IInv'
  BY <1>2, ReadsKeep, WritesKeep, FaultsKeep DEF Statement
<1>3. CASE HandleResolve
  BY <1>3, HandleResolveKeeps
<1>4. CASE Tick
  BY <1>4, TickKeeps
<1> QED
  BY <1>1, <1>2, <1>3, <1>4 DEF Next

(* The states keep their types, however many processes run the check: a     *)
(* push on record lies between the opening of its incident and the present. *)
THEOREM IncidentsTypeOK == Spec => []TypeOK
<1>1. IInv => TypeOK
  BY DEF IInv
<1> QED
  BY <1>1, StartsWell, Keeps, PTL DEF Spec

-----------------------------------------------------------------------------
(* How each action leaves the rows it does not create.                      *)
Resolved(i) == rows' = [rows EXCEPT ![i].status = "resolved"]

RowsChange(p) ==
    \/ UNCHANGED rows
    \/ \E i \in DOMAIN rows : Resolved(i)
    \/ rows' = Append(rows, NewRow(p))
    \/ \E i \in DOMAIN rows : rows' = [rows EXCEPT ![i].severity = Severity(p)]
    \/ \E i \in DOMAIN rows : rows' = [rows EXCEPT ![i].notified = clock]

LEMMA ProcessWrites ==
    ASSUME IInv, NEW p \in Processes,
           \/ BeginRun(p) \/ Verdict(p) \/ Analyse(p, Unavailable, "no") \/ Statement(p)
           \/ StatementFails(p) \/ NotifyFails(p) \/ Crash(p)
    PROVE  RowsChange(p)
<1>1. TypeOK /\ Coherent(p)
  BY DEF IInv
<1>2. proc[p].row \in 0..Len(rows) /\ Len(rows) \in Nat /\ DOMAIN rows = 1..Len(rows)
  BY <1>1, Fields DEF TypeOK
<1>3. CASE Resolve(p)
  <2>1. proc[p].row \in DOMAIN rows
    BY <1>1, <1>2, <1>3 DEF Resolve, Coherent
  <2> QED
    BY <1>3, <2>1 DEF Resolve, RowsChange, Resolved
<1>4. CASE Create(p)
  BY <1>4 DEF Create, RowsChange
<1>5. CASE Update(p)
  <2>1. proc[p].row \in DOMAIN rows
    BY <1>2, <1>5 DEF Update
  <2> QED
    BY <1>5, <2>1 DEF Update, RowsChange
<1>6. CASE Mark(p)
  <2>1. proc[p].row \in DOMAIN rows
    BY <1>1, <1>2, <1>6 DEF Mark, Coherent
  <2> QED
    BY <1>6, <2>1 DEF Mark, RowsChange
<1>7. CASE ~(Resolve(p) \/ Create(p) \/ Update(p) \/ Mark(p))
  BY <1>7 DEF RowsChange, BeginRun, Verdict, Analyse, Statement, Recover, ReadActive,
              CreateConflicts, Notify, StatementFails, NotifyFails, Crash
<1> QED
  BY <1>3, <1>4, <1>5, <1>6, <1>7

LEMMA RowsChangeKeeps ==
    ASSUME IInv, NEW p \in Processes, RowsChange(p), NEW i \in DOMAIN rows
    PROVE  /\ i \in DOMAIN rows'
           /\ rows'[i].subject = rows[i].subject
           /\ rows[i].status = "resolved" => rows'[i].status = "resolved"
<1>1. rows \in Seq(Row)
  BY DEF IInv, TypeOK
<1>2. CASE rows' = Append(rows, NewRow(p))
  BY <1>1, <1>2
<1>3. CASE ~(rows' = Append(rows, NewRow(p)))
  <2>1. rows[i] \in Row
    BY <1>1
  <2>2. CASE UNCHANGED rows
    BY <2>2
  <2>3. ASSUME NEW j \in DOMAIN rows, Resolved(j)
        PROVE  i \in DOMAIN rows' /\ rows'[i].subject = rows[i].subject
               /\ (rows[i].status = "resolved" => rows'[i].status = "resolved")
    BY <1>1, <2>1, <2>3 DEF Resolved, Row
  <2>4. ASSUME NEW j \in DOMAIN rows, rows' = [rows EXCEPT ![j].severity = Severity(p)]
        PROVE  i \in DOMAIN rows' /\ rows'[i].subject = rows[i].subject /\ rows'[i].status = rows[i].status
    BY <1>1, <2>1, <2>4 DEF Row
  <2>5. ASSUME NEW j \in DOMAIN rows, rows' = [rows EXCEPT ![j].notified = clock]
        PROVE  i \in DOMAIN rows' /\ rows'[i].subject = rows[i].subject /\ rows'[i].status = rows[i].status
    BY <1>1, <2>1, <2>5 DEF Row
  <2> QED
    BY <1>3, <2>2, <2>3, <2>4, <2>5 DEF RowsChange
<1> QED
  BY <1>2, <1>3

(* An incident that was resolved is never active again, however many runs   *)
(* of the check overlap and whenever the operator resolves it.              *)
THEOREM IncidentsResolvedStays == Spec => ResolvedStays
<1> DEFINE Stays == \A i \in DOMAIN rows : rows[i].status = "resolved" => rows'[i].status = "resolved"
<1>1. IInv /\ [Next]_vars => [Stays]_vars
  <2> SUFFICES ASSUME IInv, Next
               PROVE  Stays
    OBVIOUS
  <2>1. ASSUME NEW p \in Processes, RowsChange(p)
        PROVE  Stays
    BY <2>1, RowsChangeKeeps
  <2>2. CASE HandleResolve
    <3>1. PICK j \in DOMAIN rows : Resolved(j)
      BY <2>2 DEF HandleResolve, Resolved
    <3> QED
      BY <3>1 DEF Resolved, IInv, TypeOK
  <2>3. CASE Tick
    BY <2>3 DEF Tick
  <2> QED
    BY <2>1, <2>2, <2>3, ProcessWrites DEF Next
<1> QED
  BY <1>1, StartsWell, Keeps, PTL DEF Spec, ResolvedStays

-----------------------------------------------------------------------------
(* Runs that follow each other.  Between its read and its write a process   *)
(* knows the active incidents, and that the analysis has none when it acts  *)
(* on a verdict; only the operator writes meanwhile, and that resolves.     *)
Unique ==
    \A i, j \in DOMAIN rows :
        rows[i].subject = rows[j].subject /\ rows[i].status = "active" /\ rows[j].status = "active"
            => i = j

Due(p) == proc[p].last = rows[proc[p].row].notified
          /\ (Escalated(p) \/ ShouldNotify(proc[p].now, proc[p].last))

Alone(p) ==
    /\ Unique
    /\ proc[p].at = "write" => Active(proc[p].subject) \subseteq {proc[p].row}
    /\ proc[p].at = "write" /\ proc[p].row # 0 => proc[p].last = rows[proc[p].row].notified
    /\ proc[p].at = "notify" /\ proc[p].event = "updated" => Due(p)
    /\ proc[p].subject = "check" /\ proc[p].at \in {"read", "write", "notify", "mark"} =>
          Active("analysis") = {}
    /\ proc[p].subject = "analysis" /\ proc[p].verdict # Unavailable /\ proc[p].at \in {"notify", "mark"} =>
          Active("analysis") = {}

(* Statements that write no new row leave at most the rows that were active.*)
LEMMA FewerActive ==
    ASSUME IInv, NEW p \in Processes, RowsChange(p), rows' # Append(rows, NewRow(p))
    PROVE  /\ DOMAIN rows' = DOMAIN rows
           /\ \A s : Active(s)' \subseteq Active(s)
           /\ Unique => Unique'
<1>1. rows \in Seq(Row) /\ DOMAIN rows' = DOMAIN rows
  <2>1. rows \in Seq(Row)
    BY DEF IInv, TypeOK
  <2> QED
    BY <2>1 DEF RowsChange, Resolved
<1>2. ASSUME NEW i \in DOMAIN rows
      PROVE  rows'[i].subject = rows[i].subject /\ (rows'[i].status = "active" => rows[i].status = "active")
  <2>1. rows'[i].subject = rows[i].subject /\ (rows[i].status = "resolved" => rows'[i].status = "resolved")
    BY RowsChangeKeeps
  <2>2. rows[i].status \in {"active", "resolved"}
    BY RowFields
  <2> QED
    BY <2>1, <2>2
<1>3. \A s : Active(s)' \subseteq Active(s)
  BY <1>1, <1>2 DEF Active
<1>4. Unique => Unique'
  BY <1>1, <1>2 DEF Unique
<1> QED
  BY <1>1, <1>3, <1>4

(* A process that neither decides nor tells is fine once it has left the    *)
(* analysis without an incident or has not come that far.                   *)
LEMMA AloneElsewhere ==
    ASSUME NEW p \in Processes, Unique', proc[p]'.at \in {"idle", "analyse", "recover", "read", "mark"},
           proc[p]'.subject = "check" /\ proc[p]'.at \in {"read", "mark"} => Active("analysis")' = {},
           proc[p]'.subject = "analysis" /\ proc[p]'.verdict # Unavailable /\ proc[p]'.at = "mark" =>
              Active("analysis")' = {}
    PROVE  Alone(p)'
BY DEF Alone

(* Where processIncident returns to.                                        *)
LEMMA AloneDone ==
    ASSUME IInv, NEW p \in Processes, Step(p, Done(p)), Unique',
           proc[p].subject = "analysis" /\ proc[p].verdict # Unavailable => Active("analysis")' = {}
    PROVE  Alone(p)'
<1>1. TypeOK
  BY DEF IInv
<1>2. proc'[p] = Done(p)
  BY <1>1, DoneIs, StepOf
<1>3. proc[p]'.at \in {"idle", "read"} /\ (proc[p]'.at = "read" => Active("analysis")' = {})
  BY <1>1, <1>2, DoneIs
<1> QED
  BY <1>3, AloneElsewhere

LEMMA AloneReads ==
    ASSUME IInv, NEW p \in Processes, Alone(p),
           \/ BeginRun(p) \/ Verdict(p) \/ Analyse(p, Unavailable, "no") \/ Recover(p)
    PROVE  Alone(p)'
<1>1. TypeOK
  BY DEF IInv
<1>2. UNCHANGED rows
  BY DEF BeginRun, Verdict, Analyse, Recover
<1>3. Unique' /\ \A s : Active(s)' = Active(s)
  BY <1>2 DEF Alone, Unique, Active
<1>4. CASE BeginRun(p)
  <2>1. proc'[p] = Analysing
    BY <1>1, <1>4, BeginRunGoes, StepOf
  <2> QED
    BY <1>3, <2>1, AloneElsewhere DEF Analysing, With
<1>5. ASSUME NEW verdict \in Unavailable..Urgent, NEW alert \in {"yes", "no"}, Analyse(p, verdict, alert)
      PROVE  Alone(p)'
  <2>1. CASE verdict = Unavailable
    <3>1. proc'[p] = With(proc[p], "read", "analysis", proc[p].event, proc[p].row)
      BY <1>1, <1>5, <2>1, AnalyseGoes, StepOf
    <3> QED
      BY <1>3, <3>1, AloneElsewhere DEF With
  <2>2. CASE verdict # Unavailable
    <3>1. proc'[p] = Answered(proc[p], verdict, alert)
      BY <1>1, <1>5, <2>2, AnalyseGoes, StepOf
    <3> QED
      BY <1>3, <3>1, AloneElsewhere DEF Answered
  <2> QED
    BY <2>1, <2>2
<1>6. CASE Verdict(p) \/ Analyse(p, Unavailable, "no")
  <2>1. Normal..Urgent \subseteq Unavailable..Urgent /\ Unavailable \in Unavailable..Urgent
    BY DEF Unavailable, Normal, Urgent
  <2> QED
    BY <1>5, <1>6, <2>1 DEF Verdict
<1>7. CASE Recover(p)
  <2> DEFINE subject == IF ActiveIncident("analysis") = 0 THEN "check" ELSE "analysis"
             next == With(proc[p], "read", subject, proc[p].event, proc[p].row)
  <2>1. Step(p, next) /\ next \in Doing
    BY <1>7, RecoverGoes
  <2>2. next.at = "read" /\ next.subject = subject
    BY DEF With
  <2>3. proc'[p] = next
    <3> HIDE DEF next
    <3> QED
      BY <1>1, <2>1, StepOf
  <2>4. subject = "check" => Active("analysis") = {}
    <3>1. 0 \notin Active("analysis")
      BY DEF Active, IInv, TypeOK
    <3> QED
      BY <1>1, <3>1, ActiveIncidentFinds
  <2> HIDE DEF next, subject
  <2> QED
    BY <1>3, <2>2, <2>3, <2>4, AloneElsewhere
<1> QED
  BY <1>4, <1>6, <1>7

LEMMA AloneReadActive ==
    ASSUME IInv, NEW p \in Processes, Alone(p), ReadActive(p)
    PROVE  Alone(p)'
<1> DEFINE i == ActiveIncident(proc[p].subject)
           next == Found(proc[p], i, IF i = 0 THEN 0 ELSE rows[i].severity,
                         IF i = 0 THEN Never ELSE rows[i].notified, clock)
<1>1. TypeOK /\ proc[p].subject \in {"check", "analysis"} /\ 0 \notin DOMAIN rows
  BY Fields DEF IInv, TypeOK
<1>2. UNCHANGED rows /\ proc[p].at = "read"
  BY DEF ReadActive
<1>3. Unique' /\ \A s : Active(s)' = Active(s)
  BY <1>2 DEF Alone, Unique, Active
<1>4. CASE Step(p, Done(p)) /\ i = 0
  <2>1. proc[p].subject = "analysis" => Active("analysis") = {}
    <3>1. 0 \notin Active("analysis")
      BY <1>1 DEF Active
    <3> QED
      BY <1>1, <1>4, <3>1, ActiveIncidentFinds
  <2> QED
    BY <1>3, <1>4, <2>1, AloneDone
<1>5. CASE ~(Step(p, Done(p)) /\ i = 0)
  <2>1. /\ Step(p, next) /\ next \in Doing
        /\ i = 0 => Active(proc[p].subject) = {}
        /\ i # 0 => i \in Active(proc[p].subject)
    BY <1>5, ReadActiveGoes
  <2>2. /\ next.at = "write" /\ next.subject = proc[p].subject /\ next.row = i
        /\ i # 0 => next.last = rows[i].notified
    BY DEF Found
  <2>3. proc'[p] = next
    <3> HIDE DEF next
    <3> QED
      BY <1>1, <2>1, StepOf
  <2>4. Active(proc[p].subject) \subseteq {i}
    BY <2>1 DEF Alone, Unique, Active
  <2>5. proc[p].subject = "check" => Active("analysis") = {}
    BY <1>2 DEF Alone
  <2> HIDE DEF next, i
  <2> QED
    BY <1>2, <1>3, <2>2, <2>3, <2>4, <2>5 DEF Alone
<1> QED
  BY <1>4, <1>5

LEMMA AloneWrites ==
    ASSUME IInv, NEW p \in Processes, Alone(p),
           \/ Resolve(p) \/ Create(p) \/ CreateConflicts(p) \/ Update(p) \/ Notify(p) \/ Mark(p)
    PROVE  Alone(p)'
<1>1. TypeOK /\ Coherent(p) /\ rows \in Seq(Row)
  BY DEF IInv, TypeOK
<1>2. /\ proc[p].row \in 0..Len(rows) /\ Len(rows) \in Nat
      /\ proc[p].subject \in {"check", "analysis"}
  BY <1>1, Fields
<1>3. proc[p].row # 0 => proc[p].row \in DOMAIN rows
  BY <1>1, <1>2
<1>4. RowsChange(p)
  BY ProcessWrites DEF Statement
<1>5. proc[p].subject = "check" /\ proc[p].at \in {"write", "notify", "mark"} => Active("analysis") = {}
  BY DEF Alone
<1>6. CASE Resolve(p)
  <2>1. proc[p].at = "write" /\ proc[p].row \in DOMAIN rows
    BY <1>1, <1>3, <1>6 DEF Resolve, Coherent
  <2>2. rows' = [rows EXCEPT ![proc[p].row].status = "resolved"]
    BY <1>6 DEF Resolve
  <2>3. Len(rows') = Len(rows) /\ rows'[proc[p].row].status = "resolved"
    <3>1. rows[proc[p].row] \in Row
      BY <2>1, RowFields
    <3> QED
      BY <1>1, <2>1, <2>2, <3>1 DEF Row
  <2>4. rows' # Append(rows, NewRow(p))
    BY <1>1, <1>2, <2>3
  <2>5. Unique' /\ \A s : Active(s)' \subseteq Active(s)
    BY <1>4, <2>4, FewerActive DEF Alone
  <2>6. ASSUME NEW j \in Active(proc[p].subject)
        PROVE  rows'[j].status # "active"
    BY <2>1, <2>3, <2>6 DEF Alone
  <2>7. Active("analysis")' = {}
    <3>1. CASE proc[p].subject = "check"
      BY <1>5, <2>1, <2>5, <3>1
    <3>2. CASE proc[p].subject = "analysis"
      <4>1. \A j \in Active("analysis") : rows'[j].status # "active"
        BY <2>6, <3>2
      <4> QED
        BY <2>5, <4>1 DEF Active
    <3> QED
      BY <1>2, <3>1, <3>2
  <2>8. CASE Step(p, Done(p))
    BY <2>5, <2>7, <2>8, AloneDone
  <2>9. CASE ~Step(p, Done(p))
    <3> DEFINE next == With(proc[p], "notify", proc[p].subject, "resolved", proc[p].row)
    <3>1. Step(p, next) /\ next \in Doing
      <4>1. [proc[p] EXCEPT !.at = "notify", !.event = "resolved"] = next /\ next \in Doing
        BY <1>2, GoesToTell
      <4> QED
        BY <1>6, <2>9, <4>1 DEF Resolve
    <3>2. next.at = "notify" /\ next.event = "resolved"
      BY DEF With
    <3> HIDE DEF next
    <3>3. proc'[p] = next
      BY <1>1, <3>1, StepOf
    <3> QED
      BY <2>5, <2>7, <3>2, <3>3 DEF Alone
  <2> QED
    BY <2>8, <2>9
<1>7. CASE Create(p)
  <2> DEFINE next == With(proc[p], "notify", proc[p].subject, "created", Len(rows) + 1)
             n == Len(rows) + 1
  <2>1. /\ proc[p].at = "write" /\ proc[p].row = 0 /\ Severity(p) # Normal
        /\ rows' = Append(rows, NewRow(p))
    BY <1>7 DEF Create
  <2>2. Step(p, next) /\ next \in Doing
    <3>1. n \in Nat
      BY <1>2
    <3>2. next \in Doing
      BY <3>1, GoesToTell
    <3>3. [proc[p] EXCEPT !.at = "notify", !.event = "created"]
             = With(proc[p], "notify", proc[p].subject, "created", proc[p].row)
      BY <3>1, GoesToTell
    <3>4. [proc[p] EXCEPT !.at = "notify", !.event = "created", !.row = Len(rows) + 1]
             = [With(proc[p], "notify", proc[p].subject, "created", proc[p].row) EXCEPT !.row = Len(rows) + 1]
      BY <3>3
    <3>5. [proc[p] EXCEPT !.at = "notify", !.event = "created", !.row = Len(rows) + 1] = next
      BY <3>4 DEF With
    <3> QED
      BY <1>7, <3>2, <3>5 DEF Create
  <2>3. next.at = "notify" /\ next.event = "created" /\ next.subject = proc[p].subject
        /\ next.verdict = proc[p].verdict
    BY DEF With
  <2> HIDE DEF next
  <2>4. proc'[p] = next
    BY <1>1, <2>2, StepOf
  <2>5. /\ \A j \in DOMAIN rows : rows'[j] = rows[j]
        /\ rows'[n] = NewRow(p) /\ DOMAIN rows' = DOMAIN rows \cup {n} /\ n \notin DOMAIN rows
    BY <1>1, <1>2, <2>1
  <2>6. ASSUME NEW j \in DOMAIN rows, rows[j].status = "active"
        PROVE  rows[j].subject # proc[p].subject
    <3>1. Active(proc[p].subject) \subseteq {0}
      BY <2>1 DEF Alone
    <3> QED
      BY <1>1, <2>6, <3>1 DEF Active
  <2>7. NewRow(p).subject = proc[p].subject /\ NewRow(p).status = "active"
    BY DEF NewRow
  <2>8. Unique'
    <3>1. Unique
      BY DEF Alone
    <3> HIDE DEF n
    <3> SUFFICES ASSUME NEW i \in DOMAIN rows', NEW j \in DOMAIN rows',
                        rows'[i].subject = rows'[j].subject, rows'[i].status = "active",
                        rows'[j].status = "active"
                 PROVE  i = j
      BY DEF Unique
    <3>2. CASE i \in DOMAIN rows /\ j \in DOMAIN rows
      BY <2>5, <3>1, <3>2 DEF Unique
    <3>3. CASE i = n /\ j \in DOMAIN rows
      BY <2>5, <2>6, <2>7, <3>3
    <3>4. CASE j = n /\ i \in DOMAIN rows
      BY <2>5, <2>6, <2>7, <3>4
    <3> QED
      BY <2>5, <3>2, <3>3, <3>4
  <2>9. proc[p].subject = "check" => Active("analysis")' = {}
    <3>1. proc[p].subject = "check" => Active("analysis") = {}
      BY <1>5, <2>1
    <3> HIDE DEF n
    <3> QED
      BY <2>5, <2>7, <3>1 DEF Active
  <2>10. proc[p].subject = "analysis" => proc[p].verdict = Unavailable
    BY <2>1 DEF Severity
  <2> QED
    BY <2>3, <2>4, <2>8, <2>9, <2>10 DEF Alone
<1>8. CASE CreateConflicts(p)
  <2>1. UNCHANGED rows /\ Step(p, Idle)
    BY <1>8 DEF CreateConflicts
  <2>2. proc'[p] = Idle
    BY <1>1, <2>1, Dones, StepOf
  <2>3. Unique'
    BY <2>1 DEF Alone, Unique
  <2> QED
    BY <2>2, <2>3, AloneElsewhere DEF Idle
<1>9. CASE Update(p)
  <2>1. /\ proc[p].at = "write" /\ proc[p].row # 0 /\ Severity(p) # Normal
        /\ rows' = [rows EXCEPT ![proc[p].row].severity = Severity(p)]
    BY <1>9 DEF Update
  <2>2. /\ proc[p].row \in DOMAIN rows
        /\ Len(rows') = Len(rows) /\ rows'[proc[p].row].notified = rows[proc[p].row].notified
    <3>1. rows[proc[p].row] \in Row
      BY <1>3, <2>1, RowFields
    <3> QED
      BY <1>1, <1>3, <2>1, <3>1 DEF Row
  <2>3. rows' # Append(rows, NewRow(p))
    BY <1>1, <1>2, <2>2
  <2>4. Unique' /\ \A s : Active(s)' \subseteq Active(s)
    BY <1>4, <2>3, FewerActive DEF Alone
  <2>5. proc[p].subject = "analysis" => proc[p].verdict = Unavailable
    BY <2>1 DEF Severity
  <2>6. CASE Step(p, Done(p))
    BY <2>4, <2>5, <2>6, AloneDone
  <2>7. CASE ~Step(p, Done(p))
    <3> DEFINE next == With(proc[p], "notify", proc[p].subject, "updated", proc[p].row)
    <3>1. Step(p, next) /\ next \in Doing
      <4>1. [proc[p] EXCEPT !.at = "notify", !.event = "updated"] = next /\ next \in Doing
        BY <1>2, GoesToTell
      <4> QED
        BY <1>9, <2>7, <4>1 DEF Update
    <3>2. Escalated(p) \/ ShouldNotify(proc[p].now, proc[p].last)
      BY <1>9, <2>7 DEF Update
    <3>3. /\ next.at = "notify" /\ next.event = "updated" /\ next.subject = proc[p].subject
          /\ next.verdict = proc[p].verdict /\ next.alert = proc[p].alert /\ next.row = proc[p].row
          /\ next.rank = proc[p].rank /\ next.last = proc[p].last /\ next.now = proc[p].now
      BY DEF With
    <3> HIDE DEF next
    <3>4. proc'[p] = next
      BY <1>1, <3>1, StepOf
    <3>5. Due(p)'
      <4>1. proc[p].last = rows[proc[p].row].notified
        BY <2>1 DEF Alone
      <4>2. Escalated(p)' <=> Escalated(p)
        BY <3>3, <3>4 DEF Escalated, Alerts, Severity
      <4>3. ShouldNotify(proc[p].now, proc[p].last)' <=> ShouldNotify(proc[p].now, proc[p].last)
        BY <3>3, <3>4 DEF ShouldNotify
      <4>4. proc'[p].last = rows'[proc'[p].row].notified
        BY <2>2, <3>3, <3>4, <4>1
      <4> QED
        BY <3>2, <4>2, <4>3, <4>4 DEF Due
    <3>6. proc[p].subject = "check" => Active("analysis")' = {}
      BY <1>5, <2>1, <2>4
    <3> QED
      BY <2>4, <2>5, <3>3, <3>4, <3>5, <3>6 DEF Alone
  <2> QED
    BY <2>6, <2>7
<1>10. CASE Notify(p)
  <2> DEFINE next == With(proc[p], "mark", proc[p].subject, proc[p].event, proc[p].row)
  <2>1. proc[p].at = "notify" /\ UNCHANGED rows
    BY <1>10 DEF Notify
  <2>2. Step(p, next) /\ next \in Doing
    <3>1. [proc[p] EXCEPT !.at = "mark"] = next /\ next \in Doing
      BY <1>2, GoesToTell
    <3> QED
      BY <1>10, <3>1 DEF Notify
  <2>3. next.at = "mark" /\ next.subject = proc[p].subject /\ next.verdict = proc[p].verdict
    BY DEF With
  <2> HIDE DEF next
  <2>4. proc'[p] = next
    BY <1>1, <2>2, StepOf
  <2>5. Unique' /\ Active("analysis")' = Active("analysis")
    BY <2>1 DEF Alone, Unique, Active
  <2> QED
    BY <2>1, <2>3, <2>4, <2>5, AloneElsewhere DEF Alone
<1>11. CASE Mark(p)
  <2>1. /\ proc[p].at = "mark" /\ proc[p].row \in DOMAIN rows /\ Step(p, Done(p))
        /\ rows' = [rows EXCEPT ![proc[p].row].notified = clock]
    BY <1>1, <1>3, <1>11 DEF Mark, Coherent
  <2>2. rows' # Append(rows, NewRow(p))
    BY <1>1, <1>2, <2>1
  <2>3. Unique' /\ \A s : Active(s)' \subseteq Active(s)
    BY <1>4, <2>2, FewerActive DEF Alone
  <2>4. proc[p].subject = "analysis" /\ proc[p].verdict # Unavailable => Active("analysis")' = {}
    BY <2>1, <2>3 DEF Alone
  <2> QED
    BY <2>1, <2>3, <2>4, AloneDone
<1> QED
  BY <1>6, <1>7, <1>8, <1>9, <1>10, <1>11

LEMMA AloneFaults ==
    ASSUME IInv, NEW p \in Processes, Alone(p), StatementFails(p) \/ NotifyFails(p) \/ Crash(p)
    PROVE  Alone(p)'
<1>1. UNCHANGED rows /\ TypeOK
  BY DEF StatementFails, NotifyFails, Crash, IInv
<1>2. Unique' /\ Active("analysis")' = Active("analysis")
  BY <1>1 DEF Alone, Unique, Active
<1>3. CASE StatementFails(p) \/ Crash(p)
  <2>1. proc'[p] = Idle
    BY <1>1, <1>3, Dones, StepOf DEF StatementFails, Crash
  <2> QED
    BY <1>2, <2>1, AloneElsewhere DEF Idle
<1>4. CASE NotifyFails(p)
  BY <1>2, <1>4, AloneDone DEF Alone, NotifyFails
<1> QED
  BY <1>3, <1>4

LEMMA AloneHandleResolve ==
    ASSUME IInv, NEW p \in Processes, Alone(p), HandleResolve
    PROVE  Alone(p)'
<1>1. PICK i \in DOMAIN rows : Resolved(i)
  BY DEF HandleResolve, Resolved
<1>2. UNCHANGED proc
  BY DEF HandleResolve
<1>3. rows \in Seq(Row) /\ rows[i] \in Row /\ proc[p].row \in 0..Len(rows) /\ Len(rows) \in Nat
      /\ Coherent(p)
  BY RowFields, Fields DEF IInv, TypeOK
<1>4. RowsChange(p) /\ rows' # Append(rows, NewRow(p))
  <2>1. Len(rows') = Len(rows)
    BY <1>1, <1>3 DEF Resolved
  <2> QED
    BY <1>1, <1>3, <2>1 DEF RowsChange
<1>5. Unique' /\ \A s : Active(s)' \subseteq Active(s)
  BY <1>4, FewerActive DEF Alone
<1>6. \A j \in DOMAIN rows : rows'[j].notified = rows[j].notified
  BY <1>1, <1>3 DEF Resolved, Row
<1>7. proc[p].at \in {"write", "notify"} /\ proc[p].row # 0 =>
         rows'[proc[p].row].notified = rows[proc[p].row].notified
  BY <1>3, <1>6
<1>8. proc[p].at = "notify" /\ proc[p].event = "updated" => Due(p)'
  <2>1. SUFFICES ASSUME proc[p].at = "notify", proc[p].event = "updated"
                 PROVE  Due(p)'
    OBVIOUS
  <2>2. Due(p) /\ proc[p].row # 0
    BY <1>3, <2>1 DEF Alone, Coherent
  <2>3. (Escalated(p)' <=> Escalated(p))
        /\ (ShouldNotify(proc[p].now, proc[p].last)' <=> ShouldNotify(proc[p].now, proc[p].last))
    BY <1>2 DEF Escalated, Alerts, Severity, ShouldNotify
  <2> QED
    BY <1>2, <1>7, <2>1, <2>2, <2>3 DEF Due
<1>9. Active(proc[p].subject)' \subseteq Active(proc[p].subject)
  <2>1. \A s : s = proc[p].subject => Active(s)' \subseteq Active(s)
    BY <1>5
  <2> QED
    BY <1>2, <1>5 DEF Active
<1> QED
  BY <1>2, <1>5, <1>7, <1>8, <1>9 DEF Alone

LEMMA AloneTick ==
    ASSUME IInv, NEW p \in Processes, Alone(p), Tick \/ UNCHANGED vars
    PROVE  Alone(p)'
<1>1. UNCHANGED <<rows, proc>>
  BY DEF Tick, vars
<1>2. /\ Unique' <=> Unique
      /\ Due(p)' <=> Due(p)
      /\ \A s : Active(s)' = Active(s)
  BY <1>1 DEF Unique, Due, Escalated, Alerts, Severity, ShouldNotify, Active
<1>3. Active(proc[p].subject)' = Active(proc[p].subject)
  BY <1>1 DEF Active
<1> QED
  BY <1>1, <1>2, <1>3 DEF Alone

-----------------------------------------------------------------------------
(* One process: the daemon alone.                                           *)
AInv(d) == IInv /\ Alone(d)

LEMMA AloneStarts ==
    ASSUME NEW d, Processes = {d}
    PROVE  Init => AInv(d)
<1> SUFFICES ASSUME Init
             PROVE  AInv(d)
  OBVIOUS
<1>1. proc[d] = Idle /\ rows = <<>>
  BY DEF Init
<1>2. Alone(d)
  BY <1>1 DEF Alone, Unique, Idle
<1> QED
  BY <1>2, StartsWell DEF AInv

LEMMA AloneKeeps ==
    ASSUME NEW d, Processes = {d}
    PROVE  AInv(d) /\ [Next]_vars => AInv(d)'
<1> SUFFICES ASSUME AInv(d), [Next]_vars
             PROVE  AInv(d)'
  OBVIOUS
<1>1. IInv /\ Alone(d) /\ d \in Processes
  BY DEF AInv
<1>2. IInv'
  BY <1>1, Keeps
<1>3. CASE UNCHANGED vars \/ Tick
  BY <1>1, <1>2, <1>3, AloneTick DEF AInv
<1>4. CASE HandleResolve
  BY <1>1, <1>2, <1>4, AloneHandleResolve DEF AInv
<1>5. ASSUME \/ BeginRun(d) \/ Verdict(d) \/ Analyse(d, Unavailable, "no") \/ Statement(d)
             \/ StatementFails(d) \/ NotifyFails(d) \/ Crash(d)
      PROVE  AInv(d)'
  BY <1>1, <1>2, <1>5, AloneReads, AloneReadActive, AloneWrites, AloneFaults DEF AInv, Statement
<1> QED
  BY <1>3, <1>4, <1>5 DEF Next

LEMMA AloneOneActive == ASSUME NEW d PROVE AInv(d) => OneActive
<1> SUFFICES ASSUME AInv(d), NEW s \in {"check", "analysis"}
             PROVE  Cardinality(Active(s)) <= 1
  BY DEF OneActive
<1>1. \A i, j \in Active(s) : i = j
  BY DEF AInv, Alone, Unique, Active
<1>2. CASE Active(s) = {}
  BY <1>2, FS_EmptySet
<1>3. CASE Active(s) # {}
  <2>1. PICK i : Active(s) = {i}
    BY <1>1, <1>3
  <2>2. Cardinality({i}) = 1
    BY FS_Singleton
  <2> QED
    BY <2>1, <2>2
<1> QED
  BY <1>2, <1>3

(* With one process, a subject never has two active incidents, and a verdict *)
(* is acted on only when none says that the analysis is unavailable         *)
(* (runAnalysis closes it first, engine.go:449).                            *)
THEOREM IncidentsAgreeWithRuns ==
    ASSUME NEW d, Processes = {d}
    PROVE  Spec => []IncidentsAgree
<1>1. AInv(d) => OneActive
  BY AloneOneActive
<1>2. AInv(d) => VerdictWithAnalysisClosed
  BY DEF AInv, Alone, VerdictWithAnalysisClosed
<1>3. AInv(d) => IncidentsAgree
  BY <1>1, <1>2 DEF IncidentsAgree
<1> QED
  BY <1>3, AloneStarts, AloneKeeps, PTL DEF Spec

(* A reminder waits for both intervals since the last push on record.       *)
THEOREM IncidentsReminderSpacing ==
    ASSUME NEW d, Processes = {d}
    PROVE  Spec => []ReminderSpacing
<1>1. AInv(d) => ReminderSpacing
  <2> DEFINE last == rows[proc[d].row].notified
  <2> SUFFICES ASSUME AInv(d), proc[d].at = "notify", proc[d].event = "updated", ~Escalated(d),
                      last # Never
               PROVE  clock - last >= Cooldown /\ clock - last >= RepeatAfter
    BY DEF ReminderSpacing
  <2>1. IInv /\ Alone(d) /\ d \in Processes
    BY DEF AInv
  <2>2. proc[d].last = last /\ ShouldNotify(proc[d].now, proc[d].last)
    BY <2>1 DEF Alone, Due
  <2>3. proc[d].now \in 0..clock /\ proc[d].row \in 0..Len(rows) /\ clock \in Nat /\ Len(rows) \in Nat
    BY <2>1, Fields DEF IInv
  <2>4. proc[d].row \in DOMAIN rows
    BY <2>1, <2>3 DEF IInv, TypeOK, Coherent
  <2>5. last \in Int /\ last <= clock
    BY <2>1, <2>3, <2>4, RowFields
  <2>6. /\ proc[d].now - last >= Cooldown
        /\ IF RepeatAfter > 0 THEN proc[d].now - last >= RepeatAfter ELSE Cooldown > 0
    BY <2>2 DEF ShouldNotify
  <2> HIDE DEF last
  <2> QED
    BY <2>3, <2>5, <2>6, IncidentsAssumption DEF IncidentsAssumption
<1> QED
  BY <1>1, AloneStarts, AloneKeeps, PTL DEF Spec

-----------------------------------------------------------------------------
(* The schedule of the checks, their runs and what an incident names.       *)

(* The runs an active incident names, and the run a process analyses, are   *)
(* in the table, are of the check and have not been deleted; no run gets    *)
(* old while it is analysed.                                                *)
IsRunOf(r, c) == r \in DOMAIN checkRuns /\ checkRuns[r].age # "deleted" /\ checkRuns[r].check = c
IncidentsHaveRuns == \A c \in Checks : incident[c].active => IsRunOf(incident[c].first, c) /\ IsRunOf(incident[c].last, c)
AnalysedAreNew ==
    \A p \in Hugins : hugin[p].at = "analyse" => IsRunOf(hugin[p].run, hugin[p].check) /\ checkRuns[hugin[p].run].age = "new"

(* A process that started alone is alone, and each check it is configured   *)
(* with is still to be looked at, is being replaced, or has its row.        *)
Syncing == {"sync", "delete", "enqueue"}
AloneIsAlone == \A p \in Hugins : hugin[p].alone /\ HuginUp(p) => \A q \in Hugins \ {p} : ~HuginUp(q)
TodoIsSynced == \A p \in Hugins : HuginUp(p) /\ hugin[p].at \notin Syncing => hugin[p].todo = {}
SyncAdvances ==
    \A p \in Hugins : hugin[p].alone /\ HuginUp(p) => \A c \in Desired(hugin[p].cfg) :
        \/ c \in hugin[p].todo
        \/ hugin[p].at \in {"delete", "enqueue"} /\ hugin[p].check = c
        \/ checkTask[c].schedule = hugin[p].cfg[c]

ScheduleInv == /\ ScheduleTypeOK /\ IncidentsHaveRuns /\ AnalysedAreNew
               /\ AloneIsAlone /\ TodoIsSynced /\ SyncAdvances

LEMMA ScheduleInitial == ScheduleInit => ScheduleInv
<1> SUFFICES ASSUME ScheduleInit PROVE ScheduleInv
  OBVIOUS
<1>1. Off \in HuginRecords /\ Off.at = "off" /\ NoTask \in TaskRecords /\ NoIncident \in IncidentRecords /\ ~NoIncident.active
  BY HuginScheduleAssumption DEF Off, HuginRecords, Places, NotConfigured, NoTask, TaskRecords,
        NoIncident, IncidentRecords
<1>2. {NotConfigured, 1} \subseteq Nat
  BY DEF NotConfigured
<1> HIDE DEF Off, NoTask, NoIncident
<1>3. ScheduleTypeOK
  BY <1>1, <1>2 DEF ScheduleInit, ScheduleTypeOK
<1> QED BY <1>1, <1>3 DEF ScheduleInit, ScheduleInv, IncidentsHaveRuns, AnalysedAreNew, AloneIsAlone,
     TodoIsSynced, SyncAdvances, HuginUp

(* What the steps do to a process and to a row keeps their shape.           *)
LEMMA HuginRecordsKept ==
    ASSUME NEW h \in HuginRecords
    PROVE  /\ \A place \in Places : [h EXCEPT !.at = place] \in HuginRecords
           /\ [h EXCEPT !.alone = FALSE] \in HuginRecords
           /\ [h EXCEPT !.at = "loop", !.check = Off.check, !.run = 0] \in HuginRecords
           /\ \A c \in Checks, place \in Places, todo \in SUBSET Checks :
                [h EXCEPT !.todo = todo, !.check = c, !.at = place] \in HuginRecords
           /\ \A c \in Checks : [h EXCEPT !.at = "handle", !.check = c] \in HuginRecords
           /\ \A r \in Nat : [h EXCEPT !.at = "analyse", !.run = r] \in HuginRecords
           /\ Off \in HuginRecords
           /\ \A cfg \in [Checks -> Nat], todo \in SUBSET Checks, b \in BOOLEAN :
                [Off EXCEPT !.at = "sync", !.cfg = cfg, !.todo = todo, !.alone = b] \in HuginRecords
<1>1. Off \in HuginRecords
  BY HuginScheduleAssumption DEF Off, HuginRecords, Places, NotConfigured
<1> HIDE DEF Off
<1>2. Off.check \in Checks /\ {"sync", "loop", "handle", "analyse"} \subseteq Places
  BY <1>1 DEF HuginRecords, Places
<1> HIDE DEF Places
<1> QED BY <1>1, <1>2 DEF HuginRecords

LEMMA TaskRecordsKept ==
    ASSUME NEW c \in Checks, checkTask[c] \in TaskRecords
    PROVE  /\ NoTask \in TaskRecords /\ Advanced(c) \in TaskRecords /\ Failed(c) \in TaskRecords
           /\ \A next \in {"none", "later", "due", "never"} : [checkTask[c] EXCEPT !.next = next] \in TaskRecords
           /\ \A p \in Hugins \cup {Nobody} : [checkTask[c] EXCEPT !.owner = p] \in TaskRecords
           /\ \A s \in Nat : [NoTask EXCEPT !.schedule = s, !.next = "later"] \in TaskRecords
           /\ Advanced(c).schedule = checkTask[c].schedule /\ Failed(c).schedule = checkTask[c].schedule
           /\ \A s \in Nat : [NoTask EXCEPT !.schedule = s, !.next = "later"].schedule = s
<1>1. NoTask \in TaskRecords
  BY DEF TaskRecords, NoTask, NotConfigured
<1>2. \A s \in Nat : [NoTask EXCEPT !.schedule = s, !.next = "later"] \in TaskRecords
                  /\ [NoTask EXCEPT !.schedule = s, !.next = "later"].schedule = s
  BY DEF TaskRecords, NoTask, NotConfigured
<1>3. \A next \in {"none", "later", "due", "never"} : [checkTask[c] EXCEPT !.next = next] \in TaskRecords
  BY DEF TaskRecords
<1>4. \A p \in Hugins \cup {Nobody} : [checkTask[c] EXCEPT !.owner = p] \in TaskRecords
  BY DEF TaskRecords
<1>5. Advanced(c) \in TaskRecords /\ Advanced(c).schedule = checkTask[c].schedule
  BY DEF TaskRecords, Advanced
<1>6. Failed(c) \in TaskRecords /\ Failed(c).schedule = checkTask[c].schedule
  <2>1. \A n \in Nat, next \in {"none", "later", "due", "never"} :
          LET row == [checkTask[c] EXCEPT !.attempts = n, !.owner = Nobody, !.next = next]
          IN row \in TaskRecords /\ row.schedule = checkTask[c].schedule
    BY DEF TaskRecords
  <2>2. checkTask[c].attempts + 1 \in Nat
    BY DEF TaskRecords
  <2>3. (IF checkTask[c].attempts + 1 >= MaxTries THEN "never" ELSE "later") \in {"none", "later", "due", "never"}
    OBVIOUS
  <2>4. Failed(c) = [checkTask[c] EXCEPT !.attempts = checkTask[c].attempts + 1, !.owner = Nobody,
           !.next = IF checkTask[c].attempts + 1 >= MaxTries THEN "never" ELSE "later"]
    BY DEF Failed
  <2> QED BY <2>1, <2>2, <2>3, <2>4
<1> QED BY <1>1, <1>2, <1>3, <1>4, <1>5, <1>6

(* Every process but one stays as it is, and that one keeps its shape.      *)
LEMMA HuginTypeKept == ScheduleTypeOK /\ [ScheduleNext]_scheduleVars => hugin' \in [Hugins -> HuginRecords]
<1> SUFFICES ASSUME ScheduleTypeOK, [ScheduleNext]_scheduleVars PROVE hugin' \in [Hugins -> HuginRecords]
  OBVIOUS
<1>t. /\ hugin \in [Hugins -> HuginRecords] /\ \A p \in Hugins : hugin[p] \in HuginRecords
      /\ yaml \in [Checks -> Nat] /\ checkRuns \in Seq(RunRecords)
  BY DEF ScheduleTypeOK
<1>0. CASE UNCHANGED scheduleVars
  BY <1>0, <1>t DEF scheduleVars
<1>1. CASE EditConfig \/ EditCheckSchedule \/ TwoWeeksPass \/ DeleteOldRuns
  BY <1>1, <1>t DEF EditConfig, EditCheckSchedule, TwoWeeksPass, DeleteOldRuns
<1>2. ASSUME NEW c \in Checks, ComesDue(c) \/ ResolveByHand(c) PROVE hugin' \in [Hugins -> HuginRecords]
  BY <1>2, <1>t DEF ComesDue, ResolveByHand
<1>3. ASSUME NEW p \in Hugins, StartHugin(p) PROVE hugin' \in [Hugins -> HuginRecords]
  <2>1. Desired(yaml) \in SUBSET Checks /\ (\A k \in Hugins : ~HuginUp(k)) \in BOOLEAN
    BY DEF Desired
  <2>2. [Off EXCEPT !.at = "sync", !.cfg = yaml, !.todo = Desired(yaml),
                    !.alone = \A k \in Hugins : ~HuginUp(k)] \in HuginRecords
    BY <1>t, <2>1, HuginRecordsKept
  <2>3. \A q \in Hugins : [hugin[q] EXCEPT !.alone = FALSE] \in HuginRecords
    BY <1>t, HuginRecordsKept
  <2> QED BY <1>3, <2>2, <2>3 DEF StartHugin
<1>4. ASSUME NEW p \in Hugins, NEW c \in Checks, GetTask(p, c) PROVE hugin' \in [Hugins -> HuginRecords]
  <2> DEFINE place == IF checkTask[c] = NoTask THEN "enqueue"
                      ELSE IF Matches(checkTask[c], hugin[p].cfg[c]) THEN "sync" ELSE "delete"
             todo == hugin[p].todo \ {c}
  <2>1. place \in Places /\ todo \in SUBSET Checks
    BY <1>t DEF Places, HuginRecords
  <2>2. hugin' = [hugin EXCEPT ![p] = [hugin[p] EXCEPT !.todo = todo, !.check = c, !.at = place]]
    BY <1>4, <1>t DEF GetTask
  <2> HIDE DEF place, todo
  <2> QED BY <2>1, <2>2, <1>t, HuginRecordsKept
<1>5. ASSUME NEW p \in Hugins, NEW place \in {"enqueue", "sync", "off"}, HuginAt(p, place)
      PROVE hugin' \in [Hugins -> HuginRecords]
  <2>1. place \in Places
    BY DEF Places
  <2>2. hugin' = [hugin EXCEPT ![p] = [hugin[p] EXCEPT !.at = place]]
    BY <1>5, <1>t DEF HuginAt
  <2> QED BY <2>1, <2>2, <1>t, HuginRecordsKept
<1>6. ASSUME NEW p \in Hugins, HuginLoop(p) PROVE hugin' \in [Hugins -> HuginRecords]
  <2>1. hugin' = [hugin EXCEPT ![p] = [hugin[p] EXCEPT !.at = "loop", !.check = Off.check, !.run = 0]]
    BY <1>6, <1>t DEF HuginLoop
  <2> QED BY <2>1, <1>t, HuginRecordsKept
<1>7. ASSUME NEW p \in Hugins, DeleteTask(p) \/ EnqueueTask(p) PROVE hugin' \in [Hugins -> HuginRecords]
  BY <1>5, <1>7 DEF DeleteTask, EnqueueTask
<1>8. ASSUME NEW p \in Hugins, SyncEnds(p) \/ DiscardRemoved(p) \/ RunFails(p) PROVE hugin' \in [Hugins -> HuginRecords]
  BY <1>6, <1>8 DEF SyncEnds, DiscardRemoved, RunFails
<1>9. ASSUME NEW p \in Hugins, NEW verdict \in {"alert", "normal", "failed"}, AnalyseRun(p, verdict)
      PROVE hugin' \in [Hugins -> HuginRecords]
  BY <1>6, <1>9 DEF AnalyseRun
<1>10. ASSUME NEW p \in Hugins, NEW c \in Checks, ClaimTask(p, c) PROVE hugin' \in [Hugins -> HuginRecords]
  <2>1. hugin' = [hugin EXCEPT ![p] = [hugin[p] EXCEPT !.at = "handle", !.check = c]]
    BY <1>10, <1>t DEF ClaimTask
  <2> QED BY <2>1, <1>t, HuginRecordsKept
<1>11. ASSUME NEW p \in Hugins, InsertRun(p) PROVE hugin' \in [Hugins -> HuginRecords]
  <2>1. hugin' = [hugin EXCEPT ![p] = [hugin[p] EXCEPT !.at = "analyse", !.run = Len(checkRuns) + 1]]
    BY <1>11, <1>t DEF InsertRun
  <2>2. Len(checkRuns) + 1 \in Nat
    BY <1>t
  <2> QED BY <2>1, <2>2, <1>t, HuginRecordsKept
<1>12. ASSUME NEW p \in Hugins, StopHugin(p) PROVE hugin' \in [Hugins -> HuginRecords]
  BY <1>12, <1>t, HuginRecordsKept DEF StopHugin
<1> QED BY <1>0, <1>1, <1>2, <1>3, <1>4, <1>7, <1>8, <1>9, <1>10, <1>11, <1>12 DEF ScheduleNext

LEMMA TaskTypeKept == ScheduleTypeOK /\ [ScheduleNext]_scheduleVars => checkTask' \in [Checks -> TaskRecords]
<1> SUFFICES ASSUME ScheduleTypeOK, [ScheduleNext]_scheduleVars PROVE checkTask' \in [Checks -> TaskRecords]
  OBVIOUS
<1>t. /\ checkTask \in [Checks -> TaskRecords] /\ \A c \in Checks : checkTask[c] \in TaskRecords
      /\ \A p \in Hugins : hugin[p].check \in Checks /\ hugin[p].cfg \in [Checks -> Nat]
  BY DEF ScheduleTypeOK, HuginRecords
<1>k. \A c \in Checks :
         /\ NoTask \in TaskRecords /\ Advanced(c) \in TaskRecords /\ Failed(c) \in TaskRecords
         /\ \A next \in {"none", "later", "due", "never"} : [checkTask[c] EXCEPT !.next = next] \in TaskRecords
         /\ \A p \in Hugins \cup {Nobody} : [checkTask[c] EXCEPT !.owner = p] \in TaskRecords
         /\ \A s \in Nat : [NoTask EXCEPT !.schedule = s, !.next = "later"] \in TaskRecords
  BY <1>t, TaskRecordsKept
<1> HIDE DEF NoTask, Advanced, Failed
<1>0. CASE UNCHANGED scheduleVars
  BY <1>0, <1>t DEF scheduleVars
<1>1. CASE EditConfig \/ EditCheckSchedule \/ TwoWeeksPass \/ DeleteOldRuns
  BY <1>1, <1>t DEF EditConfig, EditCheckSchedule, TwoWeeksPass, DeleteOldRuns
<1>2. ASSUME NEW c \in Checks, ComesDue(c) \/ ResolveByHand(c) PROVE checkTask' \in [Checks -> TaskRecords]
  BY <1>2, <1>t, <1>k DEF ComesDue, ResolveByHand
<1>3. ASSUME NEW p \in Hugins, NEW row \in TaskRecords, Finish(p, row) PROVE checkTask' \in [Checks -> TaskRecords]
  BY <1>3, <1>t DEF Finish
<1>4. ASSUME NEW p \in Hugins, StartHugin(p) \/ SyncEnds(p) \/ InsertRun(p) PROVE checkTask' \in [Checks -> TaskRecords]
  BY <1>4, <1>t DEF StartHugin, SyncEnds, InsertRun
<1>5. ASSUME NEW p \in Hugins, DeleteTask(p) PROVE checkTask' \in [Checks -> TaskRecords]
  BY <1>5, <1>t, <1>k DEF DeleteTask
<1>6. ASSUME NEW p \in Hugins, EnqueueTask(p) PROVE checkTask' \in [Checks -> TaskRecords]
  <2>1. hugin[p].cfg[hugin[p].check] \in Nat
    BY <1>t
  <2> QED BY <1>6, <1>t, <1>k, <2>1 DEF EnqueueTask
<1>7. ASSUME NEW p \in Hugins, DiscardRemoved(p) \/ RunFails(p) PROVE checkTask' \in [Checks -> TaskRecords]
  BY <1>3, <1>7, <1>t, <1>k DEF DiscardRemoved, RunFails
<1>8. ASSUME NEW p \in Hugins, NEW verdict \in {"alert", "normal", "failed"}, AnalyseRun(p, verdict)
      PROVE checkTask' \in [Checks -> TaskRecords]
  BY <1>3, <1>8, <1>t, <1>k DEF AnalyseRun
<1>9. ASSUME NEW p \in Hugins, NEW c \in Checks, GetTask(p, c) \/ ClaimTask(p, c) PROVE checkTask' \in [Checks -> TaskRecords]
  <2>1. CASE GetTask(p, c)
    BY <2>1, <1>t DEF GetTask
  <2>2. CASE ClaimTask(p, c)
    <3>1. [checkTask[c] EXCEPT !.owner = p] \in TaskRecords
      BY <1>k
    <3>2. checkTask' = [checkTask EXCEPT ![c] = [checkTask[c] EXCEPT !.owner = p]]
      BY <2>2, <1>t DEF ClaimTask
    <3> QED BY <3>1, <3>2, <1>t
  <2> QED BY <1>9, <2>1, <2>2
<1>10. ASSUME NEW p \in Hugins, StopHugin(p) PROVE checkTask' \in [Checks -> TaskRecords]
  BY <1>10, <1>t, <1>k DEF StopHugin
<1> QED BY <1>0, <1>1, <1>2, <1>4, <1>5, <1>6, <1>7, <1>8, <1>9, <1>10 DEF ScheduleNext

(* A step adds a run, or makes runs older, or deletes what is old and not   *)
(* named by an active incident.                                             *)
LEMMA RunsMove ==
    ScheduleTypeOK /\ [ScheduleNext]_scheduleVars =>
        /\ checkRuns' \in Seq(RunRecords)
        /\ \A r \in DOMAIN checkRuns :
             /\ r \in DOMAIN checkRuns' /\ checkRuns'[r].check = checkRuns[r].check
             /\ checkRuns[r].age # "deleted" /\ checkRuns'[r].age = "deleted"
                  => checkRuns[r].age = "old" /\ ~Named(r) /\ incident' = incident
             /\ checkRuns[r].age = "new" /\ checkRuns'[r].age # "new"
                  => \A p \in Hugins : hugin[p].at # "analyse" /\ hugin' = hugin
<1> DEFINE RunsKeep ==
        /\ checkRuns' \in Seq(RunRecords)
        /\ \A r \in DOMAIN checkRuns :
             /\ r \in DOMAIN checkRuns' /\ checkRuns'[r].check = checkRuns[r].check
             /\ checkRuns[r].age # "deleted" /\ checkRuns'[r].age = "deleted"
                  => checkRuns[r].age = "old" /\ ~Named(r) /\ incident' = incident
             /\ checkRuns[r].age = "new" /\ checkRuns'[r].age # "new"
                  => \A p \in Hugins : hugin[p].at # "analyse" /\ hugin' = hugin
<1> SUFFICES ASSUME ScheduleTypeOK, [ScheduleNext]_scheduleVars PROVE RunsKeep
  OBVIOUS
<1>t. checkRuns \in Seq(RunRecords) /\ \A r \in DOMAIN checkRuns : checkRuns[r] \in RunRecords
  BY DEF ScheduleTypeOK
<1>0. CASE UNCHANGED checkRuns
  BY <1>0, <1>t
<1>1. ASSUME NEW p \in Hugins, InsertRun(p) PROVE RunsKeep
  <2> DEFINE run == [check |-> hugin[p].check, age |-> "new"]
  <2>1. run \in RunRecords
    BY DEF ScheduleTypeOK, HuginRecords, RunRecords
  <2>2. checkRuns' = Append(checkRuns, run)
    BY <1>1 DEF InsertRun
  <2> HIDE DEF run
  <2>3. checkRuns' \in Seq(RunRecords) /\ \A r \in DOMAIN checkRuns : r \in DOMAIN checkRuns' /\ checkRuns'[r] = checkRuns[r]
    BY <2>1, <2>2, <1>t
  <2> QED BY <2>3
<1>2. CASE TwoWeeksPass
  <2>1. \A r \in DOMAIN checkRuns : [checkRuns[r] EXCEPT !.age = "old"] \in RunRecords
    BY <1>t DEF RunRecords
  <2>2. /\ DOMAIN checkRuns' = DOMAIN checkRuns
        /\ \A r \in DOMAIN checkRuns : checkRuns'[r] = IF checkRuns[r].age = "new"
                                                       THEN [checkRuns[r] EXCEPT !.age = "old"] ELSE checkRuns[r]
        /\ hugin' = hugin /\ \A p \in Hugins : hugin[p].at # "analyse"
    BY <1>2 DEF TwoWeeksPass
  <2>3. \A r \in DOMAIN checkRuns : checkRuns'[r] \in RunRecords
    BY <2>1, <2>2, <1>t
  <2>4. checkRuns' \in [1..Len(checkRuns) -> RunRecords]
    BY <1>2, <2>2, <2>3, <1>t DEF TwoWeeksPass
  <2>5. checkRuns' \in Seq(RunRecords)
    BY <2>4, <1>t
  <2>6. \A r \in DOMAIN checkRuns : checkRuns'[r].check = checkRuns[r].check /\ checkRuns'[r].age \in {checkRuns[r].age, "old"}
    BY <2>2, <1>t DEF RunRecords
  <2> QED BY <2>2, <2>5, <2>6
<1>3. CASE DeleteOldRuns
  <2>1. \A r \in DOMAIN checkRuns : [checkRuns[r] EXCEPT !.age = "deleted"] \in RunRecords
    BY <1>t DEF RunRecords
  <2>2. /\ DOMAIN checkRuns' = DOMAIN checkRuns
        /\ \A r \in DOMAIN checkRuns : checkRuns'[r] = IF checkRuns[r].age = "old" /\ ~Named(r)
                                                       THEN [checkRuns[r] EXCEPT !.age = "deleted"] ELSE checkRuns[r]
        /\ incident' = incident
    BY <1>3 DEF DeleteOldRuns
  <2>3. \A r \in DOMAIN checkRuns : checkRuns'[r] \in RunRecords
    BY <2>1, <2>2, <1>t
  <2>4. checkRuns' \in [1..Len(checkRuns) -> RunRecords]
    BY <1>3, <2>2, <2>3, <1>t DEF DeleteOldRuns
  <2>5. checkRuns' \in Seq(RunRecords)
    BY <2>4, <1>t
  <2>6. \A r \in DOMAIN checkRuns : [checkRuns[r] EXCEPT !.age = "deleted"].check = checkRuns[r].check
    BY <1>t DEF RunRecords
  <2>7. \A r \in DOMAIN checkRuns : checkRuns'[r].check = checkRuns[r].check
    BY <2>2, <2>6
  <2>8. \A r \in DOMAIN checkRuns : checkRuns'[r] = checkRuns[r] \/ (checkRuns[r].age = "old" /\ ~Named(r))
    BY <2>2
  <2> QED BY <2>2, <2>5, <2>7, <2>8
<1>4. ASSUME [ScheduleNext]_scheduleVars, ~TwoWeeksPass, ~DeleteOldRuns, \A p \in Hugins : ~InsertRun(p)
      PROVE UNCHANGED checkRuns
  BY <1>4 DEF ScheduleNext, scheduleVars, EditConfig, EditCheckSchedule, ComesDue, ResolveByHand,
        StartHugin,
     DeleteTask, EnqueueTask, SyncEnds, DiscardRemoved, RunFails, StopHugin, GetTask, ClaimTask, AnalyseRun
<1> QED BY <1>0, <1>1, <1>2, <1>3, <1>4

(* An active incident is the one there was, or names the run that has just  *)
(* been analysed.                                                           *)
LEMMA IncidentsMove ==
    ScheduleTypeOK /\ [ScheduleNext]_scheduleVars =>
        /\ incident' \in [Checks -> IncidentRecords]
        /\ \A c \in Checks : incident'[c].active =>
             \/ incident[c].active /\ incident'[c] = incident[c]
             \/ \E p \in Hugins : /\ hugin[p].at = "analyse" /\ hugin[p].check = c /\ checkRuns' = checkRuns
                                  /\ incident'[c].last = hugin[p].run
                                  /\ \/ incident'[c].first = hugin[p].run
                                     \/ incident[c].active /\ incident'[c].first = incident[c].first
<1> DEFINE Names(c) ==
             \/ incident[c].active /\ incident'[c] = incident[c]
             \/ \E p \in Hugins : /\ hugin[p].at = "analyse" /\ hugin[p].check = c /\ checkRuns' = checkRuns
                                  /\ incident'[c].last = hugin[p].run
                                  /\ \/ incident'[c].first = hugin[p].run
                                     \/ incident[c].active /\ incident'[c].first = incident[c].first
           Kept == incident' \in [Checks -> IncidentRecords] /\ \A c \in Checks : incident'[c].active => Names(c)
<1> SUFFICES ASSUME ScheduleTypeOK, [ScheduleNext]_scheduleVars PROVE Kept
  OBVIOUS
<1>t. /\ incident \in [Checks -> IncidentRecords] /\ \A c \in Checks : incident[c] \in IncidentRecords
      /\ \A p \in Hugins : hugin[p].check \in Checks /\ hugin[p].run \in Nat
  BY DEF ScheduleTypeOK, HuginRecords
<1>0. CASE UNCHANGED incident
  BY <1>0, <1>t
<1>1. ASSUME NEW c \in Checks, ResolveByHand(c) PROVE Kept
  <2>1. [incident[c] EXCEPT !.active = FALSE] \in IncidentRecords /\ ~[incident[c] EXCEPT !.active = FALSE].active
    BY <1>t DEF IncidentRecords
  <2>2. incident' = [incident EXCEPT ![c] = [incident[c] EXCEPT !.active = FALSE]]
    BY <1>1, <1>t DEF ResolveByHand
  <2> QED BY <2>1, <2>2, <1>t
<1>2. ASSUME NEW p \in Hugins, NEW verdict \in {"alert", "normal", "failed"}, AnalyseRun(p, verdict) PROVE Kept
  <2> DEFINE c == hugin[p].check
             run == hugin[p].run
  <2>0. c \in Checks /\ run \in Nat /\ hugin[p].at = "analyse" /\ checkRuns' = checkRuns
    BY <1>2, <1>t DEF AnalyseRun
  <2>1. CASE verdict = "alert" /\ incident[c].active
    <3>1. incident' = [incident EXCEPT ![c] = [incident[c] EXCEPT !.last = run]]
      BY <1>2, <1>t, <2>0, <2>1 DEF AnalyseRun
    <3>2. /\ [incident[c] EXCEPT !.last = run] \in IncidentRecords
          /\ [incident[c] EXCEPT !.last = run].last = run
          /\ [incident[c] EXCEPT !.last = run].first = incident[c].first
      BY <1>t, <2>0 DEF IncidentRecords
    <3> HIDE DEF c, run
    <3>3. incident' \in [Checks -> IncidentRecords]
      BY <3>1, <3>2, <1>t, <2>0
    <3>4. Names(c)
      BY <3>1, <3>2, <1>t, <2>0, <2>1 DEF c, run
    <3>5. \A d \in Checks \ {c} : incident'[d] = incident[d]
      BY <3>1, <1>t
    <3> QED BY <3>3, <3>4, <3>5
  <2>2. CASE verdict = "alert" /\ ~incident[c].active
    <3>1. incident' = [incident EXCEPT ![c] = [active |-> TRUE, first |-> run, last |-> run]]
      BY <1>2, <1>t, <2>0, <2>2 DEF AnalyseRun
    <3>2. [active |-> TRUE, first |-> run, last |-> run] \in IncidentRecords
      BY <2>0 DEF IncidentRecords
    <3> HIDE DEF c, run
    <3>3. incident' \in [Checks -> IncidentRecords]
      BY <3>1, <3>2, <1>t, <2>0
    <3>4. Names(c)
      BY <3>1, <1>t, <2>0, <2>2 DEF c, run
    <3>5. \A d \in Checks \ {c} : incident'[d] = incident[d]
      BY <3>1, <1>t
    <3> QED BY <3>3, <3>4, <3>5
  <2>3. CASE verdict = "normal"
    <3>1. incident' = [incident EXCEPT ![c] = [incident[c] EXCEPT !.active = FALSE]]
      BY <1>2, <1>t, <2>0, <2>3 DEF AnalyseRun
    <3>2. [incident[c] EXCEPT !.active = FALSE] \in IncidentRecords /\ ~[incident[c] EXCEPT !.active = FALSE].active
      BY <1>t, <2>0 DEF IncidentRecords
    <3> HIDE DEF c, run
    <3> QED BY <3>1, <3>2, <1>t, <2>0
  <2>4. CASE verdict = "failed"
    <3>1. incident' = incident
      BY <1>2, <2>4 DEF AnalyseRun
    <3> QED BY <3>1, <1>0
  <2> QED BY <2>1, <2>2, <2>3, <2>4
<1>3. ASSUME \A c \in Checks : ~ResolveByHand(c),
             \A p \in Hugins, verdict \in {"alert", "normal", "failed"} : ~AnalyseRun(p, verdict)
      PROVE UNCHANGED incident
  BY <1>3 DEF ScheduleNext, scheduleVars, EditConfig, EditCheckSchedule, TwoWeeksPass,
        DeleteOldRuns, ComesDue,
     StartHugin, DeleteTask, EnqueueTask, SyncEnds, DiscardRemoved, RunFails, InsertRun, StopHugin, GetTask, ClaimTask
<1> QED BY <1>0, <1>1, <1>2, <1>3

LEMMA IncidentsHaveRunsKept ==
    ScheduleTypeOK /\ IncidentsHaveRuns /\ AnalysedAreNew /\ [ScheduleNext]_scheduleVars => IncidentsHaveRuns'
<1> SUFFICES ASSUME ScheduleTypeOK, IncidentsHaveRuns, AnalysedAreNew, [ScheduleNext]_scheduleVars,
                    NEW c \in Checks, incident'[c].active, NEW r \in {incident'[c].first, incident'[c].last}
             PROVE  r \in DOMAIN checkRuns' /\ checkRuns'[r].age # "deleted" /\ checkRuns'[r].check = c
  BY DEF IncidentsHaveRuns, IsRunOf
<1>1. CASE incident[c].active /\ incident'[c] = incident[c]
  <2>1. r \in DOMAIN checkRuns /\ checkRuns[r].age # "deleted" /\ checkRuns[r].check = c /\ Named(r)
    BY <1>1 DEF IncidentsHaveRuns, IsRunOf, Named
  <2> QED BY <2>1, RunsMove
<1>2. ASSUME NEW p \in Hugins, hugin[p].at = "analyse", hugin[p].check = c, checkRuns' = checkRuns,
             incident'[c].last = hugin[p].run,
             incident'[c].first = hugin[p].run \/ (incident[c].active /\ incident'[c].first = incident[c].first)
      PROVE r \in DOMAIN checkRuns' /\ checkRuns'[r].age # "deleted" /\ checkRuns'[r].check = c
  <2>1. IsRunOf(hugin[p].run, c)
    BY <1>2 DEF AnalysedAreNew
  <2>2. incident[c].active => IsRunOf(incident[c].first, c)
    BY DEF IncidentsHaveRuns
  <2>3. IsRunOf(r, c)
    BY <1>2, <2>1, <2>2
  <2> QED BY <1>2, <2>3 DEF IsRunOf
<1> QED BY <1>1, <1>2, IncidentsMove

(* What a step does to a process, field by field.                           *)
StaysPut(q) == (* all but that another one has started *)
    /\ hugin'[q].at = hugin[q].at /\ hugin'[q].cfg = hugin[q].cfg /\ hugin'[q].todo = hugin[q].todo
    /\ hugin'[q].check = hugin[q].check /\ hugin'[q].run = hugin[q].run
    /\ hugin'[q].alone => hugin[q].alone
Goes(q, place) ==
    /\ hugin'[q].at = place /\ hugin'[q].cfg = hugin[q].cfg /\ hugin'[q].todo = hugin[q].todo
    /\ hugin'[q].alone = hugin[q].alone
ReturnsToLoop(q) == Goes(q, "loop") /\ (hugin[q].at = "sync" => hugin[q].todo = {})
Starts(q) ==
    /\ ~HuginUp(q) /\ hugin'[q].at = "sync" /\ hugin'[q].cfg = yaml /\ hugin'[q].todo = Desired(yaml)
    /\ hugin'[q].alone = \A k \in Hugins : ~HuginUp(k)
    /\ \A k \in Hugins \ {q} : ~hugin'[k].alone
LooksAt(q, c) ==
    /\ hugin[q].at = "sync" /\ c \in hugin[q].todo
    /\ hugin'[q].todo = hugin[q].todo \ {c} /\ hugin'[q].check = c
    /\ hugin'[q].cfg = hugin[q].cfg /\ hugin'[q].alone = hugin[q].alone
    /\ \/ hugin'[q].at \in {"enqueue", "delete"}
       \/ hugin'[q].at = "sync" /\ checkTask[c].schedule = hugin[q].cfg[c]
HuginStep(q) ==
    \/ StaysPut(q)
    \/ Starts(q)
    \/ \E c \in Checks : LooksAt(q, c) /\ UNCHANGED checkTask
    \/ /\ hugin[q].at = "delete" /\ Goes(q, "enqueue") /\ hugin'[q].check = hugin[q].check
       /\ checkTask' = [checkTask EXCEPT ![hugin[q].check] = NoTask]
    \/ /\ hugin[q].at = "enqueue" /\ Goes(q, "sync")
       /\ checkTask'[hugin[q].check].schedule = hugin[q].cfg[hugin[q].check]
       /\ \A c \in Checks \ {hugin[q].check} : checkTask'[c] = checkTask[c]
    \/ HuginUp(q) /\ hugin'[q].at = "off"
    \/ hugin[q].at = "sync" /\ ReturnsToLoop(q) /\ UNCHANGED checkTask
    \/ hugin[q].at = "loop" /\ Goes(q, "handle") /\ \A c \in Checks : checkTask'[c].schedule = checkTask[c].schedule
    \/ /\ hugin[q].at \in {"handle", "analyse"} /\ ReturnsToLoop(q)
       /\ \A c \in Desired(hugin[q].cfg) : checkTask'[c].schedule = checkTask[c].schedule
    \/ /\ InsertRun(q) /\ Goes(q, "analyse") /\ hugin'[q].check = hugin[q].check
       /\ hugin'[q].run = Len(checkRuns) + 1

LEMMA HuginSteps ==
    ScheduleTypeOK /\ [ScheduleNext]_scheduleVars =>
        /\ \A q \in Hugins : HuginStep(q)
        /\ (\A q \in Hugins : StaysPut(q)) => \A c \in Checks : checkTask'[c].schedule = checkTask[c].schedule
        /\ \A q \in Hugins : ~StaysPut(q) => \A k \in Hugins \ {q} : StaysPut(k)
<1> SUFFICES ASSUME ScheduleTypeOK, [ScheduleNext]_scheduleVars
             PROVE  /\ \A q \in Hugins : HuginStep(q)
                    /\ (\A q \in Hugins : StaysPut(q)) => \A c \in Checks : checkTask'[c].schedule = checkTask[c].schedule
                    /\ \A q \in Hugins : ~StaysPut(q) => \A k \in Hugins \ {q} : StaysPut(k)
  OBVIOUS
<1>t. /\ hugin \in [Hugins -> HuginRecords] /\ checkTask \in [Checks -> TaskRecords]
      /\ \A p \in Hugins : hugin[p] \in HuginRecords /\ hugin[p].check \in Checks
      /\ \A c \in Checks : checkTask[c] \in TaskRecords
  BY DEF ScheduleTypeOK, HuginRecords
<1>k. \A c \in Checks :
         /\ \A next \in {"none", "later", "due", "never"} :
              [checkTask[c] EXCEPT !.next = next].schedule = checkTask[c].schedule
         /\ \A p \in Hugins \cup {Nobody} : [checkTask[c] EXCEPT !.owner = p].schedule = checkTask[c].schedule
         /\ Advanced(c).schedule = checkTask[c].schedule /\ Failed(c).schedule = checkTask[c].schedule
  <2>1. ASSUME NEW c \in Checks
        PROVE  /\ \A next \in {"none", "later", "due", "never"} :
                    [checkTask[c] EXCEPT !.next = next].schedule = checkTask[c].schedule
               /\ \A p \in Hugins \cup {Nobody} : [checkTask[c] EXCEPT !.owner = p].schedule = checkTask[c].schedule
    BY <1>t DEF TaskRecords
  <2> QED BY <2>1, <1>t, TaskRecordsKept
<1>o. ASSUME NEW p \in Hugins, NEW h, hugin' = [hugin EXCEPT ![p] = h]
      PROVE  hugin'[p] = h /\ \A q \in Hugins \ {p} : StaysPut(q)
  BY <1>o, <1>t DEF StaysPut
<1>a. ASSUME NEW p \in Hugins, NEW place, HuginAt(p, place)
      PROVE  Goes(p, place) /\ hugin'[p].check = hugin[p].check /\ \A q \in Hugins \ {p} : StaysPut(q)
  <2>1. hugin' = [hugin EXCEPT ![p] = [hugin[p] EXCEPT !.at = place]]
    BY <1>a, <1>t DEF HuginAt
  <2>2. hugin'[p] = [hugin[p] EXCEPT !.at = place] /\ \A q \in Hugins \ {p} : StaysPut(q)
    BY <2>1, <1>o
  <2> QED BY <2>2, <1>t DEF Goes, HuginRecords
<1>l. ASSUME NEW p \in Hugins, HuginLoop(p) PROVE Goes(p, "loop") /\ \A q \in Hugins \ {p} : StaysPut(q)
  <2>1. hugin' = [hugin EXCEPT ![p] = [hugin[p] EXCEPT !.at = "loop", !.check = Off.check, !.run = 0]]
    BY <1>l, <1>t DEF HuginLoop
  <2>2. hugin'[p] = [hugin[p] EXCEPT !.at = "loop", !.check = Off.check, !.run = 0] /\ \A q \in Hugins \ {p} : StaysPut(q)
    BY <2>1, <1>o
  <2> QED BY <2>2, <1>t DEF Goes, HuginRecords
<1>f. ASSUME NEW p \in Hugins, NEW row, Finish(p, row)
      PROVE  /\ \A c \in Checks \ {hugin[p].check} : checkTask'[c] = checkTask[c]
             /\ checkTask'[hugin[p].check] \in {row, checkTask[hugin[p].check]}
  BY <1>f, <1>t DEF Finish
<1> DEFINE Same == \A c \in Checks : checkTask'[c].schedule = checkTask[c].schedule
           Moves(p) == HuginStep(p) /\ (\A k \in Hugins \ {p} : StaysPut(k)) /\ ~StaysPut(p)
<1>0. CASE UNCHANGED hugin /\ Same
  BY <1>0 DEF HuginStep, StaysPut
<1>1. CASE UNCHANGED scheduleVars
  BY <1>0, <1>1 DEF scheduleVars
<1>2. CASE EditConfig \/ EditCheckSchedule \/ TwoWeeksPass \/ DeleteOldRuns
  BY <1>0, <1>2 DEF EditConfig, EditCheckSchedule, TwoWeeksPass, DeleteOldRuns
<1>3. ASSUME NEW c \in Checks, ComesDue(c) \/ ResolveByHand(c) PROVE UNCHANGED hugin /\ Same
  <2>1. CASE ComesDue(c)
    <3>1. checkTask' = [checkTask EXCEPT ![c] = [checkTask[c] EXCEPT !.next = "due"]] /\ UNCHANGED hugin
      BY <2>1, <1>t DEF ComesDue
    <3> QED BY <3>1, <1>t, <1>k
  <2>2. CASE ResolveByHand(c)
    BY <2>2 DEF ResolveByHand
  <2> QED BY <1>3, <2>1, <2>2
<1>4. ASSUME NEW p \in Hugins, StartHugin(p) PROVE Moves(p)
  <2> DEFINE h == [Off EXCEPT !.at = "sync", !.cfg = yaml, !.todo = Desired(yaml), !.alone = \A k \in Hugins : ~HuginUp(k)]
  <2>1. hugin'[p] = h /\ \A q \in Hugins \ {p} : hugin'[q] = [hugin[q] EXCEPT !.alone = FALSE]
    BY <1>4 DEF StartHugin
  <2>2. h.at = "sync" /\ h.cfg = yaml /\ h.todo = Desired(yaml) /\ h.alone = \A k \in Hugins : ~HuginUp(k)
    BY DEF Off
  <2>3. ~HuginUp(p)
    BY <1>4 DEF StartHugin
  <2> HIDE DEF h
  <2>4. \A q \in Hugins \ {p} : StaysPut(q) /\ ~hugin'[q].alone
    BY <2>1, <1>t DEF StaysPut, HuginRecords
  <2>5. Starts(p)
    BY <2>1, <2>2, <2>3, <2>4 DEF Starts
  <2>6. ~StaysPut(p)
    BY <2>5 DEF Starts, StaysPut, HuginUp
  <2> QED BY <2>4, <2>5, <2>6 DEF HuginStep
<1>5. ASSUME NEW p \in Hugins, NEW c \in Checks, GetTask(p, c) PROVE Moves(p)
  <2> DEFINE place == IF checkTask[c] = NoTask THEN "enqueue"
                      ELSE IF Matches(checkTask[c], hugin[p].cfg[c]) THEN "sync" ELSE "delete"
  <2>1. hugin' = [hugin EXCEPT ![p] = [hugin[p] EXCEPT !.todo = hugin[p].todo \ {c}, !.check = c, !.at = place]]
    BY <1>5, <1>t DEF GetTask
  <2>2. place \in {"enqueue", "delete"} \/ (place = "sync" /\ checkTask[c].schedule = hugin[p].cfg[c])
    BY DEF Matches
  <2>3. hugin[p].at = "sync" /\ c \in hugin[p].todo /\ UNCHANGED checkTask
    BY <1>5 DEF GetTask
  <2> HIDE DEF place
  <2>4. /\ hugin'[p] = [hugin[p] EXCEPT !.todo = hugin[p].todo \ {c}, !.check = c, !.at = place]
        /\ \A q \in Hugins \ {p} : StaysPut(q)
    BY <2>1, <1>o
  <2>5. LooksAt(p, c)
    BY <2>2, <2>3, <2>4, <1>t DEF LooksAt, HuginRecords
  <2>6. ~StaysPut(p)
    BY <2>5 DEF LooksAt, StaysPut
  <2> QED BY <2>3, <2>4, <2>5, <2>6 DEF HuginStep
<1>6. ASSUME NEW p \in Hugins, DeleteTask(p) PROVE Moves(p)
  <2>1. HuginAt(p, "enqueue") /\ hugin[p].at = "delete" /\ checkTask' = [checkTask EXCEPT ![hugin[p].check] = NoTask]
    BY <1>6 DEF DeleteTask
  <2> QED BY <2>1, <1>a DEF HuginStep, Goes, StaysPut
<1>7. ASSUME NEW p \in Hugins, EnqueueTask(p) PROVE Moves(p)
  <2>1. CASE HuginAt(p, "off")
    BY <1>7, <2>1, <1>a DEF EnqueueTask, HuginStep, HuginUp, Goes, StaysPut
  <2>2. CASE HuginAt(p, "sync")
    <3> DEFINE c == hugin[p].check
               row == [NoTask EXCEPT !.schedule = hugin[p].cfg[c], !.next = "later"]
    <3>1. hugin[p].at = "enqueue"
      BY <1>7 DEF EnqueueTask
    <3>2. Goes(p, "sync") /\ \A q \in Hugins \ {p} : StaysPut(q)
      BY <2>2, <1>a
    <3>3. ~HuginAt(p, "off")
      BY <3>2, <1>a DEF Goes
    <3>4. checkTask' = [checkTask EXCEPT ![c] = row]
      BY <1>7, <3>3 DEF EnqueueTask
    <3>5. row.schedule = hugin[p].cfg[c]
      BY DEF NoTask
    <3> HIDE DEF row
    <3>6. checkTask'[c].schedule = hugin[p].cfg[c] /\ \A d \in Checks \ {c} : checkTask'[d] = checkTask[d]
      BY <3>4, <3>5, <1>t
    <3>7. ~StaysPut(p)
      BY <3>1, <3>2 DEF Goes, StaysPut
    <3> QED BY <3>1, <3>2, <3>6, <3>7 DEF HuginStep
  <2> QED BY <1>7, <2>1, <2>2 DEF EnqueueTask
<1>8. ASSUME NEW p \in Hugins, SyncEnds(p) PROVE Moves(p)
  <2>1. HuginLoop(p) /\ hugin[p].at = "sync" /\ hugin[p].todo = {} /\ UNCHANGED checkTask
    BY <1>8 DEF SyncEnds
  <2> QED BY <2>1, <1>l DEF HuginStep, ReturnsToLoop, Goes, StaysPut
<1>9. ASSUME NEW p \in Hugins, NEW c \in Checks, ClaimTask(p, c) PROVE Moves(p)
  <2>1. /\ hugin' = [hugin EXCEPT ![p] = [hugin[p] EXCEPT !.at = "handle", !.check = c]]
        /\ checkTask' = [checkTask EXCEPT ![c] = [checkTask[c] EXCEPT !.owner = p]]
        /\ hugin[p].at = "loop"
    BY <1>9, <1>t DEF ClaimTask
  <2>2. /\ hugin'[p] = [hugin[p] EXCEPT !.at = "handle", !.check = c]
        /\ \A q \in Hugins \ {p} : StaysPut(q)
    BY <2>1, <1>o
  <2>3. Goes(p, "handle")
    BY <2>2, <1>t DEF Goes, HuginRecords
  <2>4. Same
    BY <2>1, <1>t, <1>k
  <2> QED BY <2>1, <2>2, <2>3, <2>4 DEF HuginStep, Goes, StaysPut
<1>10. ASSUME NEW p \in Hugins, DiscardRemoved(p) PROVE Moves(p)
  <2>1. HuginLoop(p) /\ hugin[p].at = "handle" /\ Finish(p, NoTask) /\ hugin[p].check \notin Desired(hugin[p].cfg)
    BY <1>10 DEF DiscardRemoved, Desired
  <2>2. \A c \in Desired(hugin[p].cfg) : checkTask'[c] = checkTask[c]
    BY <2>1, <1>f DEF Desired
  <2> QED BY <2>1, <2>2, <1>l DEF HuginStep, ReturnsToLoop, Goes, StaysPut
<1>11. ASSUME NEW p \in Hugins, RunFails(p) PROVE Moves(p)
  <2>1. HuginLoop(p) /\ hugin[p].at = "handle" /\ Finish(p, Failed(hugin[p].check))
    BY <1>11 DEF RunFails
  <2>2. Same
    BY <2>1, <1>f, <1>t, <1>k
  <2> QED BY <2>1, <2>2, <1>l DEF HuginStep, ReturnsToLoop, Goes, StaysPut, Desired
<1>12. ASSUME NEW p \in Hugins, NEW verdict \in {"alert", "normal", "failed"}, AnalyseRun(p, verdict) PROVE Moves(p)
  <2>1. HuginLoop(p) /\ hugin[p].at = "analyse" /\ Finish(p, Advanced(hugin[p].check))
    BY <1>12 DEF AnalyseRun
  <2>2. Same
    BY <2>1, <1>f, <1>t, <1>k
  <2> QED BY <2>1, <2>2, <1>l DEF HuginStep, ReturnsToLoop, Goes, StaysPut, Desired
<1>13. ASSUME NEW p \in Hugins, InsertRun(p) PROVE Moves(p)
  <2>1. /\ hugin' = [hugin EXCEPT ![p] = [hugin[p] EXCEPT !.at = "analyse", !.run = Len(checkRuns) + 1]]
        /\ hugin[p].at = "handle"
    BY <1>13, <1>t DEF InsertRun
  <2>2. /\ hugin'[p] = [hugin[p] EXCEPT !.at = "analyse", !.run = Len(checkRuns) + 1]
        /\ \A q \in Hugins \ {p} : StaysPut(q)
    BY <2>1, <1>o
  <2>3. Goes(p, "analyse") /\ hugin'[p].check = hugin[p].check /\ hugin'[p].run = Len(checkRuns) + 1
    BY <2>2, <1>t DEF Goes, HuginRecords
  <2> QED BY <1>13, <2>1, <2>2, <2>3 DEF HuginStep, Goes, StaysPut
<1>14. ASSUME NEW p \in Hugins, StopHugin(p) PROVE Moves(p)
  <2>1. HuginUp(p) /\ hugin' = [hugin EXCEPT ![p] = Off]
    BY <1>14 DEF StopHugin
  <2>2. hugin'[p] = Off /\ \A q \in Hugins \ {p} : StaysPut(q)
    BY <2>1, <1>o
  <2>3. hugin'[p].at = "off"
    BY <2>2 DEF Off
  <2> QED BY <2>1, <2>2, <2>3 DEF HuginStep, HuginUp, StaysPut
<1>m. ASSUME NEW p \in Hugins, Moves(p)
      PROVE  /\ \A q \in Hugins : HuginStep(q)
             /\ (\A q \in Hugins : StaysPut(q)) => Same
             /\ \A q \in Hugins : ~StaysPut(q) => \A k \in Hugins \ {q} : StaysPut(k)
  BY <1>m DEF HuginStep
<1> HIDE DEF Moves, Same
<1>15. \/ UNCHANGED hugin /\ Same
       \/ \E p \in Hugins : Moves(p)
  <2> QED BY <1>1, <1>2, <1>3, <1>4, <1>5, <1>6, <1>7, <1>8, <1>9, <1>10, <1>11, <1>12, <1>13, <1>14
         DEF ScheduleNext, Same, EditConfig, EditCheckSchedule, TwoWeeksPass, DeleteOldRuns, scheduleVars
<1> QED BY <1>0, <1>15, <1>m DEF Same

LEMMA AnalysedAreNewKept ==
    ScheduleTypeOK /\ AnalysedAreNew /\ [ScheduleNext]_scheduleVars => AnalysedAreNew'
<1> SUFFICES ASSUME ScheduleTypeOK, AnalysedAreNew, [ScheduleNext]_scheduleVars,
                    NEW q \in Hugins, hugin'[q].at = "analyse"
             PROVE  IsRunOf(hugin[q].run, hugin[q].check)' /\ checkRuns'[hugin'[q].run].age = "new"
  BY DEF AnalysedAreNew
<1>1. CASE StaysPut(q)
  <2>1. /\ hugin[q].at = "analyse" /\ hugin'[q].run = hugin[q].run /\ hugin'[q].check = hugin[q].check
        /\ hugin[q].run \in DOMAIN checkRuns /\ checkRuns[hugin[q].run].age = "new"
        /\ checkRuns[hugin[q].run].check = hugin[q].check
    BY <1>1 DEF StaysPut, AnalysedAreNew, IsRunOf
  <2>2. /\ hugin[q].run \in DOMAIN checkRuns' /\ checkRuns'[hugin[q].run].age = "new"
        /\ checkRuns'[hugin[q].run].check = checkRuns[hugin[q].run].check
    BY <2>1, RunsMove
  <2> QED BY <2>1, <2>2 DEF IsRunOf
<1>2. CASE InsertRun(q) /\ hugin'[q].run = Len(checkRuns) + 1 /\ hugin'[q].check = hugin[q].check
  <2> DEFINE run == [check |-> hugin[q].check, age |-> "new"]
  <2>1. checkRuns' = Append(checkRuns, run)
    BY <1>2 DEF InsertRun
  <2>2. run \in RunRecords /\ checkRuns \in Seq(RunRecords) /\ run.age = "new" /\ run.check = hugin[q].check
    BY DEF ScheduleTypeOK, HuginRecords, RunRecords
  <2> HIDE DEF run
  <2>3. Len(checkRuns) + 1 \in DOMAIN checkRuns' /\ checkRuns'[Len(checkRuns) + 1] = run
    BY <2>1, <2>2
  <2> QED BY <1>2, <2>2, <2>3 DEF IsRunOf
<1>3. HuginStep(q)
  BY HuginSteps
<1> QED BY <1>1, <1>2, <1>3 DEF HuginStep, Starts, LooksAt, Goes, ReturnsToLoop

(* A process that starts alone finds all others down, and they stay down    *)
(* while it says so.                                                        *)
LEMMA AloneIsAloneKept ==
    ScheduleTypeOK /\ AloneIsAlone /\ [ScheduleNext]_scheduleVars => AloneIsAlone'
<1> SUFFICES ASSUME ScheduleTypeOK, AloneIsAlone, [ScheduleNext]_scheduleVars,
                    NEW p \in Hugins, hugin'[p].alone, hugin'[p].at # "off", NEW q \in Hugins \ {p}
             PROVE  hugin'[q].at = "off"
  BY DEF AloneIsAlone, HuginUp
<1>1. HuginStep(p) /\ HuginStep(q) /\ (~StaysPut(p) => StaysPut(q))
  BY HuginSteps
<1>2. hugin[q].at = "off"
  <2>1. CASE Starts(p)
    BY <2>1 DEF Starts, HuginUp
  <2>2. CASE ~Starts(p)
    <3>1. hugin[p].alone /\ HuginUp(p)
      BY <1>1, <2>2 DEF HuginStep, StaysPut, LooksAt, Goes, ReturnsToLoop, HuginUp, InsertRun
    <3> QED BY <3>1 DEF AloneIsAlone, HuginUp
  <2> QED BY <2>1, <2>2
<1>3. ~Starts(q)
  BY DEF Starts
<1> QED BY <1>1, <1>2, <1>3 DEF HuginStep, StaysPut, LooksAt, Goes, ReturnsToLoop, HuginUp, InsertRun

LEMMA TodoIsSyncedKept ==
    ScheduleTypeOK /\ TodoIsSynced /\ [ScheduleNext]_scheduleVars => TodoIsSynced'
<1> SUFFICES ASSUME ScheduleTypeOK, TodoIsSynced, [ScheduleNext]_scheduleVars,
                    NEW q \in Hugins, hugin'[q].at # "off", hugin'[q].at \notin Syncing
             PROVE  hugin'[q].todo = {}
  BY DEF TodoIsSynced, HuginUp
<1>1. HuginStep(q)
  BY HuginSteps
<1> QED BY <1>1 DEF HuginStep, StaysPut, Starts, LooksAt, Goes, ReturnsToLoop, HuginUp, InsertRun,
      TodoIsSynced, Syncing

LEMMA SyncAdvancesKept ==
    ScheduleTypeOK /\ AloneIsAlone /\ SyncAdvances /\ [ScheduleNext]_scheduleVars => SyncAdvances'
<1> SUFFICES ASSUME ScheduleTypeOK, AloneIsAlone, SyncAdvances, [ScheduleNext]_scheduleVars,
                    NEW p \in Hugins, hugin'[p].alone, hugin'[p].at # "off",
                    NEW c \in Checks, c \in Desired(hugin'[p].cfg)
             PROVE  \/ c \in hugin'[p].todo
                    \/ hugin'[p].at \in {"delete", "enqueue"} /\ hugin'[p].check = c
                    \/ checkTask'[c].schedule = hugin'[p].cfg[c]
  BY DEF SyncAdvances, HuginUp, Desired
<1>1. HuginStep(p)
  BY HuginSteps
<1>2. CASE Starts(p)
  BY <1>2 DEF Starts
<1>3. CASE ~Starts(p)
  <2>1. hugin[p].alone /\ HuginUp(p) /\ hugin'[p].cfg = hugin[p].cfg
    BY <1>1, <1>3 DEF HuginStep, StaysPut, LooksAt, Goes, ReturnsToLoop, HuginUp, InsertRun
  <2>2. \/ c \in hugin[p].todo
        \/ hugin[p].at \in {"delete", "enqueue"} /\ hugin[p].check = c
        \/ checkTask[c].schedule = hugin[p].cfg[c]
    BY <2>1 DEF SyncAdvances
  <2>3. CASE StaysPut(p)
    <3>1. \A q \in Hugins \ {p} : StaysPut(q)
      <4>1. ASSUME NEW q \in Hugins \ {p} PROVE StaysPut(q)
        <5>1. HuginStep(q) /\ ~HuginUp(q)
          BY HuginSteps, <2>1 DEF AloneIsAlone
        <5>2. ~Starts(q)
          BY DEF Starts
        <5> QED BY <5>1, <5>2 DEF HuginStep, LooksAt, Goes, ReturnsToLoop, HuginUp, InsertRun
      <4> QED BY <4>1
    <3>2. checkTask'[c].schedule = checkTask[c].schedule
      BY <2>3, <3>1, HuginSteps
    <3> QED BY <2>1, <2>2, <2>3, <3>2 DEF StaysPut
  <2>4. CASE ~StaysPut(p)
    <3>1. ASSUME NEW d \in Checks, LooksAt(p, d), UNCHANGED checkTask
          PROVE  \/ c \in hugin'[p].todo
                 \/ hugin'[p].at \in {"delete", "enqueue"} /\ hugin'[p].check = c
                 \/ checkTask'[c].schedule = hugin'[p].cfg[c]
      BY <3>1, <2>1, <2>2 DEF LooksAt
    <3>2. CASE hugin[p].at = "delete" /\ Goes(p, "enqueue") /\ hugin'[p].check = hugin[p].check
               /\ checkTask' = [checkTask EXCEPT ![hugin[p].check] = NoTask]
      BY <3>2, <2>1, <2>2 DEF Goes, ScheduleTypeOK
    <3>3. CASE hugin[p].at = "enqueue" /\ Goes(p, "sync")
               /\ checkTask'[hugin[p].check].schedule = hugin[p].cfg[hugin[p].check]
               /\ \A d \in Checks \ {hugin[p].check} : checkTask'[d] = checkTask[d]
      BY <3>3, <2>1, <2>2 DEF Goes
    <3>4. CASE hugin[p].at = "sync" /\ ReturnsToLoop(p) /\ UNCHANGED checkTask
      BY <3>4, <2>1, <2>2 DEF ReturnsToLoop, Goes
    <3>5. CASE hugin[p].at = "loop" /\ Goes(p, "handle") /\ \A d \in Checks : checkTask'[d].schedule = checkTask[d].schedule
      BY <3>5, <2>1, <2>2 DEF Goes
    <3>6. CASE hugin[p].at \in {"handle", "analyse"} /\ ReturnsToLoop(p)
               /\ \A d \in Desired(hugin[p].cfg) : checkTask'[d].schedule = checkTask[d].schedule
      BY <3>6, <2>1, <2>2 DEF ReturnsToLoop, Goes
    <3>7. CASE InsertRun(p) /\ Goes(p, "analyse")
      BY <3>7, <2>1, <2>2 DEF Goes, InsertRun
    <3> QED BY <1>1, <1>3, <2>4, <3>1, <3>2, <3>3, <3>4, <3>5, <3>6, <3>7 DEF HuginStep
  <2> QED BY <2>3, <2>4
<1> QED BY <1>2, <1>3

LEMMA ScheduleTypeKept == ScheduleTypeOK /\ [ScheduleNext]_scheduleVars => ScheduleTypeOK'
<1> SUFFICES ASSUME ScheduleTypeOK, [ScheduleNext]_scheduleVars PROVE ScheduleTypeOK'
  OBVIOUS
<1>1. yaml' \in [Checks -> Nat] /\ edits' \in Nat
  <2>1. yaml \in [Checks -> Nat] /\ edits \in Nat /\ NotConfigured \in Nat /\ edits + 2 \in Nat
    BY DEF ScheduleTypeOK, NotConfigured
  <2>2. CASE EditConfig \/ EditCheckSchedule
    BY <2>1, <2>2 DEF EditConfig, EditCheckSchedule
  <2>3. CASE UNCHANGED <<yaml, edits>>
    BY <2>1, <2>3
  <2> QED BY <2>2, <2>3 DEF ScheduleNext, scheduleVars, TwoWeeksPass, DeleteOldRuns, ComesDue,
        ResolveByHand,
        StartHugin, DeleteTask, EnqueueTask, SyncEnds, DiscardRemoved, RunFails, InsertRun, StopHugin, GetTask,
        ClaimTask, AnalyseRun
<1> QED BY <1>1, HuginTypeKept, TaskTypeKept, RunsMove, IncidentsMove DEF ScheduleTypeOK

LEMMA ScheduleKept == ScheduleInv /\ [ScheduleNext]_scheduleVars => ScheduleInv'
<1> SUFFICES ASSUME ScheduleInv, [ScheduleNext]_scheduleVars PROVE ScheduleInv'
  OBVIOUS
<1>1. ScheduleTypeOK /\ IncidentsHaveRuns /\ AnalysedAreNew /\ AloneIsAlone /\ TodoIsSynced /\ SyncAdvances
  BY DEF ScheduleInv
<1>2. ScheduleTypeOK' /\ IncidentsHaveRuns' /\ AnalysedAreNew'
  BY <1>1, ScheduleTypeKept, IncidentsHaveRunsKept, AnalysedAreNewKept
<1>3. AloneIsAlone' /\ TodoIsSynced' /\ SyncAdvances'
  BY <1>1, AloneIsAloneKept, TodoIsSyncedKept, SyncAdvancesKept
<1> QED BY <1>2, <1>3 DEF ScheduleInv

(* Every variable of the schedule keeps its shape.                          *)
THEOREM ScheduleTypeCorrect == ScheduleSpec => []ScheduleTypeOK
<1>1. ScheduleInv => ScheduleTypeOK
  BY DEF ScheduleInv
<1> QED BY ScheduleInitial, ScheduleKept, <1>1, PTL DEF ScheduleSpec

(* Whatever is cleaned up, resolved by hand or analysed meanwhile, the runs *)
(* an active incident names are of its check and there to be shown          *)
(* (sqlite.go:595).                                                         *)
THEOREM ScheduleActiveIncidentsHaveRuns == ScheduleSpec => []ActiveIncidentsHaveRuns
<1>1. ScheduleInv => ActiveIncidentsHaveRuns
  BY DEF ScheduleInv, IncidentsHaveRuns, IsRunOf, ActiveIncidentsHaveRuns
<1> QED BY ScheduleInitial, ScheduleKept, <1>1, PTL DEF ScheduleSpec

(* Whatever rows earlier processes left, one that synced alone has given    *)
(* every configured check its row (engine.go:306-325).                      *)
THEOREM ScheduleSyncReconciles == ScheduleSpec => []SyncReconciles
<1>1. ScheduleInv => SyncReconciles
  <2> SUFFICES ASSUME ScheduleInv, NEW p \in Hugins, Settled(p), NEW c \in Checks, yaml[c] # NotConfigured
               PROVE  checkTask[c].schedule = yaml[c]
    BY DEF SyncReconciles
  <2>1. HuginUp(p) /\ hugin[p].alone /\ hugin[p].cfg = yaml /\ hugin[p].at \notin Syncing
    BY DEF Settled, HuginUp, Syncing
  <2>2. hugin[p].todo = {} /\ c \in Desired(hugin[p].cfg)
    BY <2>1 DEF ScheduleInv, TodoIsSynced, Desired
  <2> QED BY <2>1, <2>2 DEF ScheduleInv, SyncAdvances, Syncing
<1> QED BY ScheduleInitial, ScheduleKept, <1>1, PTL DEF ScheduleSpec
=============================================================================
