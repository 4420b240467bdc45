---------------------------- MODULE BgJobsProofs ----------------------------
(***************************************************************************)
(* Background jobs and their monitor for every set of jobs and sessions    *)
(* and every number of faults.                                             *)
(***************************************************************************)
EXTENDS BgJobs, TLAPS

Whys == {"", "exit", "timeout", "died", "killed"}
Recs == [status : {"none", "running"} \cup Final, why : Whys, followed : BOOLEAN]

\* Nobody waits to hear of the job.
Heard(j) == rec[j].status = "none" \/ rec[j].followed

\* What is kept about one job: a verdict needs the exit file, and nobody is told of
\* a job that runs or was killed.
Job(j) ==
    /\ proc[j] = "absent" => rec[j] = NoRec /\ told[j] = 0
    /\ file[j] = "ok" => proc[j] = "gone"
    /\ rec[j].status = "done" => file[j] = "ok"
    /\ rec[j].status \in {"none", "running"} => rec[j].why = "" /\ ~rec[j].followed
    /\ rec[j].status = "running" => told[j] = 0
    /\ rec[j].why = "killed" => rec[j].followed /\ told[j] = 0
    /\ j = at \/ j \in todo => rec[j].status \in Final /\ ~rec[j].followed

\* Each message but the one that is marked cost a fault.
Tally(j) ==
    /\ ~Heard(j) => told[j] <= faults
    /\ told[j] <= 1 + faults

AllJobs == \A j \in Jobs : Job(j) /\ Tally(j)

Inv == TypeOK /\ AllJobs /\ at \notin todo

USE JobsAssumption, FaultsAssumption

\* The fields of the records.
LEMMA NoRecFields == NoRec \in Recs /\ NoRec.status = "none" /\ NoRec.why = "" /\ ~NoRec.followed
<1>1. NoRec \in Recs
  BY DEF NoRec, Recs, Whys
<1>2. NoRec.status = "none" /\ NoRec.why = "" /\ ~NoRec.followed
  BY DEF NoRec
<1> QED
  BY <1>1, <1>2

LEMMA EndedFields ==
    ASSUME NEW s \in Final, NEW why \in Whys
    PROVE  /\ Ended(s, why, FALSE) \in Recs
           /\ Ended(s, why, FALSE).status = s /\ Ended(s, why, FALSE).why = why
           /\ ~Ended(s, why, FALSE).followed
           /\ Ended(s, why, TRUE) \in Recs
           /\ Ended(s, why, TRUE).status = s /\ Ended(s, why, TRUE).why = why
           /\ Ended(s, why, TRUE).followed
<1>1. Ended(s, why, FALSE) \in Recs /\ Ended(s, why, TRUE) \in Recs
  BY DEF Ended, Recs, Final
<1>2. /\ Ended(s, why, FALSE).status = s /\ Ended(s, why, FALSE).why = why
      /\ ~Ended(s, why, FALSE).followed
  BY DEF Ended
<1>3. /\ Ended(s, why, TRUE).status = s /\ Ended(s, why, TRUE).why = why
      /\ Ended(s, why, TRUE).followed
  BY DEF Ended
<1> QED
  BY <1>1, <1>2, <1>3

LEMMA InitInv == Init => Inv
<1> SUFFICES ASSUME Init PROVE Inv
  OBVIOUS
<1>1. TypeOK
  <2>1. rec \in [Jobs -> Recs]
    BY NoRecFields DEF Init
  <2>2. /\ home \in [Jobs -> Sessions]
        /\ proc \in [Jobs -> {"absent", "running", "closing", "gone"}]
        /\ file \in [Jobs -> {"none", "empty", "ok", "bad"}]
        /\ overdue \subseteq Jobs /\ deleted \subseteq Sessions /\ up \in BOOLEAN
        /\ at \in Jobs \cup {NoJob} /\ todo \subseteq Jobs
    BY DEF Init
  <2>3. /\ turn \in [Sessions -> {"idle", "live", "stuck"}]
        /\ told \in [Jobs -> Nat] /\ faults \in 0 .. MaxFaults
    BY DEF Init
  <2> QED
    BY <2>1, <2>2, <2>3 DEF TypeOK, Recs, Whys
<1>2. ASSUME NEW j \in Jobs PROVE Job(j)
  <2>1. rec[j] = NoRec /\ told[j] = 0 /\ j # at /\ j \notin todo /\ file[j] = "none"
    BY <1>1 DEF Init
  <2> QED
    BY <2>1, NoRecFields DEF Job
<1>3. ASSUME NEW j \in Jobs PROVE Tally(j)
  BY DEF Init, Tally
<1>4. at \notin todo
  BY DEF Init
<1> QED
  BY <1>1, <1>2, <1>3, <1>4 DEF Inv, AllJobs

-----------------------------------------------------------------------------
(* A refresh. *)

\* What it makes of one record: nothing; a verdict, if the job was still running;
\* or no record, if it has been told and its time is over.
Looked(j, r) ==
    \/ r[j] = rec[j] /\ Files(r)[j] = file[j]
    \/ /\ rec[j].status = "running" /\ Files(r)[j] = file[j]
       /\ \E s \in Final, why \in {"exit", "timeout", "died"} :
             r[j] = Ended(s, why, FALSE) /\ (s = "done" => file[j] = "ok")
    \/ rec[j].status \in Final /\ rec[j].followed /\ r[j] = NoRec /\ Files(r)[j] = "none"

LEMMA RefreshLooks ==
    ASSUME Inv, NEW r \in Refreshes
    PROVE  /\ r \in [Jobs -> Recs]
           /\ Files(r) \in [Jobs -> {"none", "empty", "ok", "bad"}]
           /\ \A j \in Jobs : Looked(j, r)
<1>1. PICK dead \in SUBSET Silent, old \in SUBSET Jobs :
         LET new == [j \in Jobs |-> Refreshed(j, dead)] IN
         /\ old \subseteq Prunable(new)
         /\ r = [j \in Jobs |-> IF j \in old THEN NoRec ELSE new[j]]
  <2>1. PICK dead \in SUBSET Silent :
           LET new == [j \in Jobs |-> Refreshed(j, dead)] IN
           r \in {[j \in Jobs |-> IF j \in old THEN NoRec ELSE new[j]] :
                    old \in SUBSET Prunable(new)}
    BY DEF Refreshes
  <2> QED
    BY <2>1 DEF Prunable
<1> DEFINE new == [j \in Jobs |-> Refreshed(j, dead)]
<1>2. ASSUME NEW j \in Jobs
      PROVE  \/ new[j] = rec[j]
             \/ /\ rec[j].status = "running"
                /\ \E s \in Final, why \in {"exit", "timeout", "died"} :
                      new[j] = Ended(s, why, FALSE) /\ (s = "done" => file[j] = "ok")
  BY DEF Refreshed, Final
<1>3. ASSUME NEW j \in Jobs PROVE new[j] \in Recs
  <2>1. rec[j] \in Recs
    BY DEF Inv, TypeOK, Recs, Whys
  <2>2. \A s \in Final, why \in {"exit", "timeout", "died"} : Ended(s, why, FALSE) \in Recs
    BY EndedFields DEF Whys
  <2> QED
    BY <1>2, <2>1, <2>2
<1>4. ASSUME NEW j \in Jobs PROVE Looked(j, r)
  <2>1. CASE j \in old
    <3>1. new[j].followed /\ new[j].status \in Final
      BY <1>1, <2>1 DEF Prunable
    <3>2. new[j] = rec[j]
      <4>1. ASSUME NEW s \in Final, NEW why \in {"exit", "timeout", "died"},
                   new[j] = Ended(s, why, FALSE)
            PROVE  ~new[j].followed
        <5>1. ~Ended(s, why, FALSE).followed
          BY EndedFields DEF Whys
        <5> QED
          BY <4>1, <5>1
      <4> QED
        BY <1>2, <3>1, <4>1
    <3>3. rec[j] # NoRec
      <4>1. rec[j].status # "none"
        BY <3>1, <3>2 DEF Final
      <4> QED
        BY <4>1, NoRecFields
    <3> QED
      BY <1>1, <2>1, <3>1, <3>2, <3>3 DEF Looked, Files
  <2>2. CASE j \notin old
    <3>1. r[j] = new[j]
      BY <1>1, <2>2
    <3>2. CASE new[j] = rec[j]
      BY <3>1, <3>2 DEF Looked, Files
    <3>3. CASE new[j] # rec[j]
      <4>1. PICK s \in Final, why \in {"exit", "timeout", "died"} :
               /\ rec[j].status = "running"
               /\ new[j] = Ended(s, why, FALSE) /\ (s = "done" => file[j] = "ok")
        BY <1>2, <3>3
      <4>2. new[j] # NoRec
        <5>1. s # "none" /\ why \in Whys
          BY DEF Final, Whys
        <5>2. Ended(s, why, FALSE).status # "none"
          BY <5>1, EndedFields
        <5> QED
          BY <4>1, <5>2, NoRecFields
      <4> QED
        BY <3>1, <4>1, <4>2 DEF Looked, Files
    <3> QED
      BY <3>2, <3>3
  <2> QED
    BY <2>1, <2>2
<1>5. r \in [Jobs -> Recs]
  BY <1>1, <1>3 DEF NoRec, Recs, Whys
<1>6. Files(r) \in [Jobs -> {"none", "empty", "ok", "bad"}]
  BY DEF Inv, TypeOK, Files
<1> QED
  BY <1>4, <1>5, <1>6

\* A signal ends processes and starts none.
LEMMA SignalEnds ==
    ASSUME Inv, NEW hit, Terminated(hit)
    PROVE  /\ proc' \in [Jobs -> {"absent", "running", "closing", "gone"}]
           /\ \A j \in Jobs : \/ proc'[j] = proc[j]
                              \/ proc[j] # "absent" /\ proc'[j] = "gone"
BY DEF Inv, TypeOK, Terminated

\* What is known of a job survives a refresh, whoever asked for it.
LEMMA LookedKeeps ==
    ASSUME Inv, NEW j \in Jobs, NEW r \in Refreshes, rec'[j] = r[j],
           file'[j] = Files(r)[j],
           \/ proc'[j] = proc[j]
           \/ proc[j] # "absent" /\ proc'[j] = "gone",
           told'[j] = told[j], faults' = faults,
           j = at' \/ j \in todo' =>
              \/ r[j].status \in Final /\ ~r[j].followed
              \/ j = at \/ j \in todo
    PROVE  Job(j)' /\ Tally(j)'
<1>1. Looked(j, r) /\ Job(j) /\ Tally(j)
  <2>1. Looked(j, r)
    BY RefreshLooks
  <2> QED
    BY <2>1 DEF Inv, AllJobs
<1>2. CASE r[j] = rec[j] /\ Files(r)[j] = file[j]
  <2>1. rec'[j] = rec[j] /\ file'[j] = file[j]
    BY <1>2
  <2> QED
    BY <1>1, <1>2, <2>1 DEF Job, Tally, Heard
<1>3. CASE rec[j].status \in Final /\ rec[j].followed /\ r[j] = NoRec /\ Files(r)[j] = "none"
  <2>1. proc[j] # "absent"
    <3>1. rec[j].status # "none"
      BY <1>3 DEF Final
    <3> QED
      BY <1>1, <3>1, NoRecFields DEF Job
  <2>2. /\ rec'[j].status = "none" /\ rec'[j].why = "" /\ ~rec'[j].followed
        /\ file'[j] = "none" /\ proc'[j] # "absent"
    BY <1>3, <2>1, NoRecFields
  <2>3. j # at' /\ j \notin todo'
    BY <1>1, <1>3, <2>2 DEF Job, Final
  <2>4. Job(j)'
    BY <2>2, <2>3 DEF Job
  <2>5. Heard(j)'
    BY <2>2 DEF Heard
  <2> QED
    BY <1>1, <2>4, <2>5 DEF Tally
<1>4. ASSUME NEW s \in Final, NEW why \in {"exit", "timeout", "died"},
             r[j] = Ended(s, why, FALSE), s = "done" => file[j] = "ok",
             rec[j].status = "running", Files(r)[j] = file[j]
      PROVE  Job(j)' /\ Tally(j)'
  <2>1. why \in Whys /\ why # "killed" /\ s # "none"
    BY DEF Whys, Final
  <2>2. rec'[j].status = s /\ rec'[j].why = why /\ ~rec'[j].followed
    <3>1. /\ Ended(s, why, FALSE).status = s /\ Ended(s, why, FALSE).why = why
          /\ ~Ended(s, why, FALSE).followed
      BY <2>1, EndedFields
    <3>2. rec'[j] = Ended(s, why, FALSE)
      BY <1>4
    <3> QED
      BY <3>1, <3>2
  <2>3. proc[j] # "absent" /\ told[j] = 0 /\ ~rec[j].followed
    <3>1. rec[j] # NoRec
      BY <1>4, NoRecFields
    <3> QED
      BY <1>1, <1>4, <3>1 DEF Job
  <2>4. proc'[j] # "absent" /\ (file[j] = "ok" => proc'[j] = "gone") /\ file'[j] = file[j]
    BY <1>1, <1>4, <2>3 DEF Job
  <2>5. Job(j)'
    BY <1>4, <2>1, <2>2, <2>3, <2>4 DEF Job, Final
  <2>6. ~Heard(j)
    BY <1>4, <2>3 DEF Heard
  <2> QED
    BY <1>1, <2>5, <2>6 DEF Tally
<1> QED
  BY <1>1, <1>2, <1>3, <1>4 DEF Looked

-----------------------------------------------------------------------------
(* The steps. *)

\* The counters.
LEMMA Numbers ==
    ASSUME Inv
    PROVE  /\ faults \in Nat /\ faults \in 0 .. MaxFaults /\ told \in [Jobs -> Nat]
           /\ \A j \in Jobs : told[j] \in Nat
<1>1. faults \in 0 .. MaxFaults /\ told \in [Jobs -> Nat]
  BY DEF Inv, TypeOK
<1>2. \A n \in 0 .. MaxFaults : n \in Nat
  BY FaultsAssumption
<1> QED
  BY <1>1, <1>2

\* Steps that touch neither processes nor records nor the monitor.
LEMMA Elsewhere ==
    ASSUME Inv, UNCHANGED <<proc, file, rec, told, monitor, faults>>
    PROVE  AllJobs' /\ (at \notin todo)'
BY DEF Inv, AllJobs, Job, Tally, Heard, monitor

\* A job that nobody was told of counts no message.
LEMMA NoneTold ==
    ASSUME Inv, NEW j \in Jobs, told'[j] = 0, faults' = faults
    PROVE  Tally(j)'
<1>1. faults \in Nat
  BY Numbers
<1> QED
  BY <1>1 DEF Tally

\* The process writes its exit file as its last act.
LEMMA ProcessKeeps ==
    ASSUME Inv, NEW j \in Jobs, CommandEnds(j) \/ ExitWritten(j) \/ Vanishes(j)
    PROVE  Inv'
<1>1. /\ UNCHANGED <<home, overdue, rec, turn, deleted, told, up, monitor, faults>>
      /\ proc[j] \in {"running", "closing"}
      /\ \/ proc' = [proc EXCEPT ![j] = "closing"] /\ file' = [file EXCEPT ![j] = "empty"]
         \/ /\ proc' = [proc EXCEPT ![j] = "gone"]
            /\ \E code \in {"ok", "bad"} : file' = [file EXCEPT ![j] = code]
         \/ proc' = [proc EXCEPT ![j] = "gone"] /\ UNCHANGED file
  BY DEF CommandEnds, ExitWritten, Vanishes
<1>2. TypeOK'
  <2>1. /\ proc' \in [Jobs -> {"absent", "running", "closing", "gone"}]
        /\ file' \in [Jobs -> {"none", "empty", "ok", "bad"}]
    BY <1>1 DEF Inv, TypeOK
  <2> QED
    BY <1>1, <2>1 DEF Inv, TypeOK, monitor
<1>3. file[j] # "ok" /\ rec[j].status # "done" /\ proc[j] # "absent"
  BY <1>1 DEF Inv, AllJobs, Job
<1>4. ASSUME NEW k \in Jobs PROVE Job(k)' /\ Tally(k)'
  <2>1. CASE k = j
    <3>1. /\ proc'[k] # "absent" /\ (file'[k] = "ok" => proc'[k] = "gone")
          /\ rec' = rec /\ told' = told /\ faults' = faults /\ at' = at /\ todo' = todo
      BY <1>1, <1>3, <2>1 DEF Inv, TypeOK, monitor
    <3> QED
      BY <1>3, <2>1, <3>1 DEF Inv, AllJobs, Job, Tally, Heard
  <2>2. CASE k # j
    <3>1. /\ proc'[k] = proc[k] /\ file'[k] = file[k]
          /\ rec' = rec /\ told' = told /\ faults' = faults /\ at' = at /\ todo' = todo
      BY <1>1, <2>2 DEF Inv, TypeOK, monitor
    <3> QED
      BY <3>1 DEF Inv, AllJobs, Job, Tally, Heard
  <2> QED
    BY <2>1, <2>2
<1> QED
  BY <1>1, <1>2, <1>4 DEF Inv, AllJobs, monitor

LEMMA LaunchKeeps ==
    ASSUME Inv, NEW j \in Jobs, Launch(j)
    PROVE  Inv'
<1>1. /\ proc[j] = "absent" /\ proc' = [proc EXCEPT ![j] = "running"]
      /\ rec' = [rec EXCEPT ![j].status = "running"]
      /\ UNCHANGED <<home, file, overdue, turn, deleted, told, up, monitor, faults>>
  BY DEF Launch
<1>2. rec[j] = NoRec /\ told[j] = 0 /\ j # at /\ j \notin todo /\ file[j] # "ok"
  <2>1. rec[j] = NoRec /\ told[j] = 0 /\ file[j] # "ok"
    BY <1>1 DEF Inv, AllJobs, Job
  <2> QED
    BY <2>1, NoRecFields DEF Inv, AllJobs, Job, Final
<1>3. rec'[j].status = "running" /\ rec'[j].why = "" /\ ~rec'[j].followed
  <2>1. rec'[j] = [NoRec EXCEPT !.status = "running"]
    BY <1>1, <1>2 DEF Inv, TypeOK
  <2> QED
    BY <2>1 DEF NoRec
<1>4. TypeOK'
  <2>1. rec' \in [Jobs -> Recs]
    <3>1. rec \in [Jobs -> Recs]
      BY DEF Inv, TypeOK, Recs, Whys
    <3>2. [rec[j] EXCEPT !.status = "running"] \in Recs
      BY <3>1 DEF Recs
    <3> QED
      BY <1>1, <3>1, <3>2
  <2>2. proc' \in [Jobs -> {"absent", "running", "closing", "gone"}]
    BY <1>1 DEF Inv, TypeOK
  <2> QED
    BY <1>1, <2>1, <2>2 DEF Inv, TypeOK, Recs, Whys, monitor
<1>5. ASSUME NEW k \in Jobs PROVE Job(k)' /\ Tally(k)'
  <2>1. CASE k = j
    <3>1. /\ proc'[k] = "running" /\ file' = file /\ told' = told /\ faults' = faults
          /\ at' = at /\ todo' = todo
      BY <1>1, <2>1 DEF Inv, TypeOK, monitor
    <3>2. Job(k)'
      BY <1>2, <1>3, <2>1, <3>1 DEF Job
    <3>3. Tally(k)'
      <4>1. told'[k] = 0 /\ faults' = faults
        BY <1>2, <2>1, <3>1
      <4> QED
        BY <4>1, NoneTold
    <3> QED
      BY <3>2, <3>3
  <2>2. CASE k # j
    <3>1. /\ proc'[k] = proc[k] /\ rec'[k] = rec[k] /\ file' = file
          /\ told' = told /\ faults' = faults /\ at' = at /\ todo' = todo
      BY <1>1, <2>2 DEF Inv, TypeOK, monitor
    <3> QED
      BY <3>1 DEF Inv, AllJobs, Job, Tally, Heard
  <2> QED
    BY <2>1, <2>2
<1> QED
  BY <1>1, <1>4, <1>5 DEF Inv, AllJobs, monitor

\* "list" and "output".
LEMMA LookKeeps ==
    ASSUME Inv, NEW s \in Sessions, Look(s)
    PROVE  Inv'
<1>1. PICK r \in Refreshes : rec' = r /\ file' = Files(r) /\ Terminated(TimedOut(r))
  BY DEF Look
<1>2. UNCHANGED <<home, overdue, turn, deleted, told, up, monitor, faults>>
  BY DEF Look
<1>3. /\ proc' \in [Jobs -> {"absent", "running", "closing", "gone"}]
      /\ \A j \in Jobs : \/ proc'[j] = proc[j]
                         \/ proc[j] # "absent" /\ proc'[j] = "gone"
  BY <1>1, SignalEnds
<1>4. \A j \in Jobs : Job(j)' /\ Tally(j)'
  BY <1>1, <1>2, <1>3, LookedKeeps DEF monitor
<1>5. rec' \in [Jobs -> Recs] /\ file' \in [Jobs -> {"none", "empty", "ok", "bad"}]
  BY <1>1, RefreshLooks
<1> QED
  BY <1>2, <1>3, <1>4, <1>5 DEF Inv, TypeOK, AllJobs, Recs, Whys, monitor

\* The monitor takes jobs that nobody heard of, each once.
LEMMA ProceedTakes ==
    ASSUME NEW list \in SUBSET Jobs, Proceed(list)
    PROVE  /\ at' \in list \cup {NoJob} /\ todo' \subseteq list
           /\ at' \notin todo'
BY DEF Proceed

LEMMA TickKeeps ==
    ASSUME Inv, Tick
    PROVE  Inv'
<1>1. PICK r \in Refreshes : /\ rec' = r /\ file' = Files(r) /\ Terminated(TimedOut(r))
                             /\ Proceed(Pending(r))
  BY DEF Tick
<1>2. UNCHANGED <<home, overdue, turn, deleted, told, up, faults>>
  BY DEF Tick
<1>3. /\ proc' \in [Jobs -> {"absent", "running", "closing", "gone"}]
      /\ \A j \in Jobs : \/ proc'[j] = proc[j]
                         \/ proc[j] # "absent" /\ proc'[j] = "gone"
  BY <1>1, SignalEnds
<1>4. /\ at' \in Pending(r) \cup {NoJob} /\ todo' \subseteq Pending(r) /\ at' \notin todo'
  <2>1. Pending(r) \in SUBSET Jobs
    BY DEF Pending
  <2> QED
    BY <1>1, <2>1, ProceedTakes
<1>5. ASSUME NEW j \in Jobs, j = at' \/ j \in todo'
      PROVE  r[j].status \in Final /\ ~r[j].followed
  BY <1>4, <1>5 DEF Pending
<1>6. \A j \in Jobs : Job(j)' /\ Tally(j)'
  BY <1>1, <1>2, <1>3, <1>5, LookedKeeps
<1>7. rec' \in [Jobs -> Recs] /\ file' \in [Jobs -> {"none", "empty", "ok", "bad"}]
  BY <1>1, RefreshLooks
<1>8. at' \in Jobs \cup {NoJob} /\ todo' \subseteq Jobs
  BY <1>4 DEF Pending
<1> QED
  BY <1>2, <1>3, <1>4, <1>6, <1>7, <1>8 DEF Inv, TypeOK, AllJobs, Recs, Whys

\* The kill of a job that runs; nobody was told of it, and nobody will be.
LEMMA KillKeeps ==
    ASSUME Inv, NEW j \in Jobs, Kill(j)
    PROVE  Inv'
<1>1. PICK r \in Refreshes :
         /\ rec' = Killed(r, j) /\ file' = Files(r)
         /\ Terminated(TimedOut(r) \cup {k \in {j} : r[k].status = "running"})
  BY DEF Kill
<1>2. UNCHANGED <<home, overdue, turn, deleted, told, up, monitor, faults>>
  BY DEF Kill
<1>3. /\ proc' \in [Jobs -> {"absent", "running", "closing", "gone"}]
      /\ \A k \in Jobs : \/ proc'[k] = proc[k]
                         \/ proc[k] # "absent" /\ proc'[k] = "gone"
  BY <1>1, SignalEnds
<1>4. r \in [Jobs -> Recs] /\ file' \in [Jobs -> {"none", "empty", "ok", "bad"}]
  BY <1>1, RefreshLooks
<1>5. Ended("failed", "killed", TRUE) \in Recs
  BY EndedFields DEF Final, Whys
<1>6. rec' \in [Jobs -> Recs]
  BY <1>1, <1>4, <1>5 DEF Killed
<1>7. ASSUME NEW k \in Jobs, k # j \/ r[j].status # "running"
      PROVE  Job(k)' /\ Tally(k)'
  <2>1. rec'[k] = r[k] /\ file'[k] = Files(r)[k]
    BY <1>1, <1>4, <1>7 DEF Killed
  <2> QED
    BY <1>2, <1>3, <2>1, LookedKeeps DEF monitor
<1>8. ASSUME r[j].status = "running" PROVE Job(j)' /\ Tally(j)'
  <2>1. rec'[j] = Ended("failed", "killed", TRUE)
    BY <1>1, <1>4, <1>8 DEF Killed
  <2>2. rec'[j].status = "failed" /\ rec'[j].why = "killed" /\ rec'[j].followed
    <3>1. "failed" \in Final /\ "killed" \in Whys
      BY DEF Final, Whys
    <3>2. /\ Ended("failed", "killed", TRUE).status = "failed"
          /\ Ended("failed", "killed", TRUE).why = "killed"
          /\ Ended("failed", "killed", TRUE).followed
      BY <3>1, EndedFields
    <3> QED
      BY <2>1, <3>2
  <2>3. Looked(j, r)
    BY RefreshLooks
  <2>4. r[j] # NoRec
    BY <1>8, NoRecFields
  <2>5. ASSUME NEW s \in Final, NEW why \in {"exit", "timeout", "died"}
        PROVE  r[j] # Ended(s, why, FALSE)
    <3>1. Ended(s, why, FALSE).status # "running"
      BY EndedFields DEF Final, Whys
    <3> QED
      BY <1>8, <3>1
  <2>6. r[j] = rec[j] /\ Files(r)[j] = file[j]
    BY <2>3, <2>4, <2>5 DEF Looked
  <2>7. rec[j].status = "running"
    BY <1>8, <2>6
  <2>8. told[j] = 0 /\ proc[j] # "absent" /\ j # at /\ j \notin todo
        /\ (file[j] = "ok" => proc[j] = "gone")
    <3>1. rec[j] # NoRec
      BY <2>7, NoRecFields
    <3> QED
      BY <2>7, <3>1 DEF Inv, AllJobs, Job, Final
  <2>9. /\ proc'[j] # "absent" /\ (file'[j] = "ok" => proc'[j] = "gone")
        /\ told'[j] = 0 /\ j # at' /\ j \notin todo'
    BY <1>1, <1>2, <1>3, <2>6, <2>8 DEF monitor
  <2>10. Job(j)'
    BY <2>2, <2>9 DEF Job
  <2>11. Tally(j)'
    BY <1>2, <2>9, NoneTold
  <2> QED
    BY <2>10, <2>11
<1>9. \A k \in Jobs : Job(k)' /\ Tally(k)'
  BY <1>7, <1>8
<1> QED
  BY <1>2, <1>3, <1>4, <1>6, <1>9 DEF Inv, TypeOK, AllJobs, Recs, Whys, monitor

\* A message about the job that is followed up, which its mark or a fault pays for.
LEMMA ToldKeeps ==
    ASSUME Inv, NEW j \in Jobs, at = j,
           Told(j) \/ UNCHANGED told,
           \/ rec' = Marked(j) /\ faults' = faults
           \/ rec' = rec /\ faults' = faults + 1,
           at' \in todo \cup {NoJob}, todo' \subseteq todo, at' \notin todo',
           UNCHANGED <<proc, file>>
    PROVE  /\ told' \in [Jobs -> Nat] /\ rec' \in [Jobs -> Recs]
           /\ AllJobs' /\ at' \in Jobs \cup {NoJob} /\ todo' \subseteq Jobs
<1>1. /\ Job(j) /\ Tally(j) /\ rec[j].status \in Final /\ ~rec[j].followed
      /\ proc[j] # "absent" /\ j \notin todo /\ ~Heard(j)
  <2>1. /\ Job(j) /\ Tally(j) /\ rec[j].status \in Final /\ ~rec[j].followed
        /\ j \notin todo
    BY DEF Inv, AllJobs, Job
  <2>2. rec[j].status # "none"
    BY <2>1 DEF Final
  <2>3. proc[j] # "absent"
    BY <2>1, <2>2, NoRecFields DEF Job
  <2> QED
    BY <2>1, <2>2, <2>3 DEF Heard
<1>2. /\ told' \in [Jobs -> Nat] /\ told'[j] \in {told[j], told[j] + 1}
      /\ \A k \in Jobs \ {j} : told'[k] = told[k]
  BY Numbers DEF Told
<1>3. rec \in [Jobs -> Recs]
  BY DEF Inv, TypeOK, Recs, Whys
<1>4. /\ rec' \in [Jobs -> Recs]
      /\ \A k \in Jobs \ {j} : rec'[k] = rec[k]
      /\ rec'[j].status = rec[j].status /\ rec'[j].why = rec[j].why
  <2>1. CASE rec' = rec
    BY <1>3, <2>1
  <2>2. CASE rec' = [rec EXCEPT ![j].followed = TRUE]
    <3>1. [rec[j] EXCEPT !.followed = TRUE] \in Recs
      BY <1>3 DEF Recs
    <3>2. rec' \in [Jobs -> Recs] /\ \A k \in Jobs \ {j} : rec'[k] = rec[k]
      BY <1>3, <2>2, <3>1
    <3>3. rec'[j].status = rec[j].status /\ rec'[j].why = rec[j].why
      BY <1>3, <2>2 DEF Recs
    <3> QED
      BY <3>2, <3>3
  <2> QED
    BY <2>1, <2>2 DEF Marked
<1>5. Job(j)'
  <2>1. j # at' /\ j \notin todo'
    BY <1>1
  <2>2. rec[j].why # "killed"
    BY <1>1 DEF Job
  <2>3. /\ proc'[j] # "absent" /\ (file'[j] = "ok" => proc'[j] = "gone")
        /\ (rec'[j].status = "done" => file'[j] = "ok")
        /\ rec'[j].status \notin {"none", "running"} /\ rec'[j].why # "killed"
    BY <1>1, <1>4, <2>2 DEF Job, Final
  <2> QED
    BY <2>1, <2>3 DEF Job
<1>6. Tally(j)'
  <2>1. told[j] <= faults /\ told[j] \in Nat /\ faults \in Nat
    BY <1>1, Numbers DEF Tally
  <2>2. CASE rec' = Marked(j) /\ faults' = faults
    <3>1. Heard(j)'
      <4>1. rec' = [rec EXCEPT ![j].followed = TRUE]
        BY <2>2 DEF Marked
      <4>2. rec'[j].followed
        BY <1>3, <4>1 DEF Recs
      <4> QED
        BY <4>2 DEF Heard
    <3>2. told'[j] <= 1 + faults'
      BY <1>2, <2>1, <2>2
    <3> QED
      BY <3>1, <3>2 DEF Tally
  <2>3. CASE faults' = faults + 1
    <3>1. told'[j] <= faults' /\ told'[j] <= 1 + faults'
      BY <1>2, <2>1, <2>3
    <3> QED
      BY <3>1 DEF Tally
  <2> QED
    BY <2>2, <2>3
<1>7. ASSUME NEW k \in Jobs, k # j PROVE Job(k)' /\ Tally(k)'
  <2>1. rec'[k] = rec[k] /\ told'[k] = told[k] /\ proc' = proc /\ file' = file
    BY <1>2, <1>4, <1>7
  <2>2. k = at' \/ k \in todo' => k \in todo
    OBVIOUS
  <2>3. Job(k)'
    BY <2>1, <2>2 DEF Inv, AllJobs, Job
  <2>4. Heard(k)' <=> Heard(k)
    BY <2>1 DEF Heard
  <2>5. Tally(k) /\ told[k] \in Nat /\ faults \in Nat
    BY Numbers DEF Inv, AllJobs
  <2>6. Tally(k)'
    BY <2>1, <2>4, <2>5 DEF Tally
  <2> QED
    BY <2>3, <2>6
<1> QED
  BY <1>2, <1>4, <1>5, <1>6, <1>7 DEF AllJobs, Inv, TypeOK

LEMMA FollowUpKeeps ==
    ASSUME Inv, NEW j \in Jobs, FollowUpStep(j)
    PROVE  Inv'
<1>0. /\ faults \in 0 .. MaxFaults
      /\ \A n \in 0 .. MaxFaults : n < MaxFaults => n + 1 \in 0 .. MaxFaults
  BY Numbers, FaultsAssumption
<1>1. /\ at = j /\ Proceed(todo) /\ faults' \in 0 .. MaxFaults
      /\ UNCHANGED <<home, procVars, turn, deleted, up>>
      /\ \/ /\ Told(j) \/ UNCHANGED told
            /\ \/ rec' = Marked(j) /\ faults' = faults
               \/ rec' = rec /\ faults' = faults + 1
         \/ UNCHANGED <<rec, told, faults>>
  BY <1>0 DEF FollowUpStep, FollowUpEnds, FollowUpOrphaned, FollowUpFails
<1>2. at' \in todo \cup {NoJob} /\ todo' \subseteq todo /\ at' \notin todo'
  BY <1>1, ProceedTakes DEF Inv, TypeOK
<1>3. CASE /\ Told(j) \/ UNCHANGED told
           /\ \/ rec' = Marked(j) /\ faults' = faults
              \/ rec' = rec /\ faults' = faults + 1
  <2>1. /\ told' \in [Jobs -> Nat] /\ rec' \in [Jobs -> Recs]
        /\ AllJobs' /\ at' \in Jobs \cup {NoJob} /\ todo' \subseteq Jobs
    BY <1>1, <1>2, <1>3, ToldKeeps DEF procVars
  <2> QED
    BY <1>1, <1>2, <2>1 DEF Inv, TypeOK, Recs, Whys, procVars
<1>4. CASE UNCHANGED <<rec, told, faults>>
  <2>1. TypeOK'
    BY <1>1, <1>2, <1>4 DEF Inv, TypeOK, procVars
  <2>2. \A k \in Jobs : k = at' \/ k \in todo' => k \in todo
    BY <1>2
  <2>3. AllJobs'
    BY <1>1, <1>4, <2>2 DEF Inv, AllJobs, Job, Tally, Heard, procVars
  <2> QED
    BY <1>2, <2>1, <2>3 DEF Inv
<1> QED
  BY <1>1, <1>3, <1>4

\* A crash may leave a process without a record, or a message without its mark.
LEMMA CrashKeeps ==
    ASSUME Inv, Crash
    PROVE  Inv'
<1>0. /\ faults \in 0 .. MaxFaults
      /\ \A n \in 0 .. MaxFaults : n < MaxFaults => n + 1 \in 0 .. MaxFaults
  BY Numbers, FaultsAssumption
<1>1. /\ at' = NoJob /\ todo' = {} /\ faults' = faults + 1 /\ faults' \in 0 .. MaxFaults
      /\ UNCHANGED <<home, file, overdue, rec, deleted>>
      /\ up' = FALSE /\ turn' = [s \in Sessions |-> "idle"]
      /\ \/ UNCHANGED <<proc, told>>
         \/ \E j \in Jobs : /\ proc[j] = "absent"
                            /\ proc' = [proc EXCEPT ![j] = "running"] /\ UNCHANGED told
         \/ \E j \in Jobs : at = j /\ Told(j) /\ UNCHANGED proc
  BY <1>0 DEF Crash
<1>2. faults \in Nat
  BY Numbers
<1>3. ASSUME NEW told2 \in [Jobs -> Nat], told' = told2,
             NEW proc2 \in [Jobs -> {"absent", "running", "closing", "gone"}], proc' = proc2
      PROVE  TypeOK'
  BY <1>1, <1>3 DEF Inv, TypeOK
<1>4. ASSUME NEW k \in Jobs, told'[k] = told[k] PROVE Tally(k)'
  <2>1. Heard(k)' <=> Heard(k)
    BY <1>1 DEF Heard
  <2>2. Tally(k) /\ told[k] \in Nat
    BY Numbers DEF Inv, AllJobs
  <2> QED
    BY <1>1, <1>2, <1>4, <2>1, <2>2 DEF Tally
<1>5. CASE UNCHANGED <<proc, told>>
  <2>1. \A k \in Jobs : Job(k)'
    BY <1>1, <1>5 DEF Inv, AllJobs, Job
  <2> QED
    BY <1>1, <1>3, <1>4, <1>5, <2>1 DEF Inv, AllJobs, TypeOK
<1>6. ASSUME NEW j \in Jobs, proc[j] = "absent",
             proc' = [proc EXCEPT ![j] = "running"], UNCHANGED told
      PROVE  Inv'
  <2>1. proc' \in [Jobs -> {"absent", "running", "closing", "gone"}]
    BY <1>6 DEF Inv, TypeOK
  <2>2. TypeOK'
    BY <1>3, <1>6, <2>1 DEF Inv, TypeOK
  <2>3. ASSUME NEW k \in Jobs PROVE Job(k)'
    <3>1. CASE k = j
      <4>1. file[j] # "ok" /\ proc'[j] = "running"
        BY <1>6 DEF Inv, AllJobs, Job, TypeOK
      <4> QED
        BY <1>1, <1>6, <3>1, <4>1 DEF Inv, AllJobs, Job
    <3>2. CASE k # j
      <4>1. proc'[k] = proc[k]
        BY <1>6, <3>2 DEF Inv, TypeOK
      <4> QED
        BY <1>1, <1>6, <4>1 DEF Inv, AllJobs, Job
    <3> QED
      BY <3>1, <3>2
  <2> QED
    BY <1>1, <1>4, <1>6, <2>2, <2>3 DEF Inv, AllJobs
<1>7. ASSUME NEW j \in Jobs, at = j, Told(j), UNCHANGED proc PROVE Inv'
  <2>1. at' \in todo \cup {NoJob} /\ todo' \subseteq todo /\ at' \notin todo'
    BY <1>1
  <2>2. told' \in [Jobs -> Nat] /\ AllJobs'
    BY <1>1, <1>7, <2>1, ToldKeeps
  <2>3. TypeOK'
    BY <1>3, <1>7, <2>2 DEF Inv, TypeOK
  <2> QED
    BY <2>1, <2>2, <2>3 DEF Inv
<1> QED
  BY <1>1, <1>5, <1>6, <1>7

LEMMA NextKeeps == Inv /\ [Next]_vars => Inv'
<1> SUFFICES ASSUME Inv, [Next]_vars PROVE Inv'
  OBVIOUS
<1>1. CASE \E j \in Jobs : CommandEnds(j) \/ ExitWritten(j) \/ Vanishes(j) \/ Overdue(j)
  <2>1. ASSUME NEW j \in Jobs, Overdue(j) PROVE Inv'
    <3>1. TypeOK'
      BY <2>1 DEF Overdue, Inv, TypeOK, monitor
    <3> QED
      BY <2>1, <3>1, Elsewhere DEF Overdue, Inv
  <2> QED
    BY <1>1, <2>1, ProcessKeeps
<1>2. CASE \E j \in Jobs : Launch(j) \/ Kill(j) \/ FollowUpStep(j)
  BY <1>2, LaunchKeeps, KillKeeps, FollowUpKeeps
<1>3. CASE \E s \in Sessions : Look(s) \/ TurnStarts(s) \/ TurnEnds(s) \/ DeleteSession(s)
  <2>1. ASSUME NEW s \in Sessions, TurnStarts(s) \/ TurnEnds(s) \/ DeleteSession(s)
        PROVE  Inv'
    <3>1. TypeOK'
      BY <2>1 DEF TurnStarts, TurnEnds, DeleteSession, Inv, TypeOK, procVars, monitor
    <3> QED
      BY <2>1, <3>1, Elsewhere DEF TurnStarts, TurnEnds, DeleteSession, Inv, procVars
  <2> QED
    BY <1>3, <2>1, LookKeeps
<1>4. CASE Tick
  BY <1>4, TickKeeps
<1>5. CASE Crash
  BY <1>5, CrashKeeps
<1>6. CASE Restart \/ UNCHANGED vars
  <2>1. TypeOK'
    BY <1>6 DEF Restart, vars, Inv, TypeOK, procVars, monitor
  <2> QED
    BY <1>6, <2>1, Elsewhere DEF Restart, vars, Inv, procVars
<1> QED
  BY <1>1, <1>2, <1>3, <1>4, <1>5, <1>6 DEF Next

LEMMA InvHolds == Spec => []Inv
BY InitInv, NextKeeps, PTL DEF Spec

-----------------------------------------------------------------------------
(* The theorems. *)

\* The variables of the job store and the monitor have their types.
THEOREM JobsTyped == Spec => []TypeOK
<1>1. Inv => TypeOK
  BY DEF Inv
<1> QED
  BY <1>1, InvHolds, PTL

\* A job is only reported done if its command succeeded.
THEOREM SuccessIsTrue == Spec => []NoFalseSuccess
<1>1. Inv => NoFalseSuccess
  BY DEF Inv, AllJobs, Job, NoFalseSuccess
<1> QED
  BY <1>1, InvHolds, PTL

\* The agent is not re-invoked for a job it stopped itself.
THEOREM StoppedIsNotFollowed == Spec => []StoppedStaysStopped
<1>1. Inv => StoppedStaysStopped
  BY DEF Inv, AllJobs, Job, StoppedStaysStopped
<1> QED
  BY <1>1, InvHolds, PTL

\* A result is told once, and once more at most for every fault.
THEOREM ToldAtMostOncePerFault == Spec => []ToldOnce
<1>1. Inv => ToldOnce
  BY DEF Inv, AllJobs, Tally, ToldOnce
<1> QED
  BY <1>1, InvHolds, PTL

\* What a step may do to the record of a job with a verdict.
Settled(j) ==
    rec[j].status \in Final =>
       \/ rec'[j].status = rec[j].status /\ rec'[j].why = rec[j].why
          /\ (rec[j].followed => rec'[j].followed)
       \/ rec[j].followed /\ rec'[j] = NoRec

\* A refresh settles nothing twice.
LEMMA RefreshSettles ==
    ASSUME Inv, NEW j \in Jobs, NEW r \in Refreshes, rec'[j] = r[j]
    PROVE  Settled(j)
<1>1. Looked(j, r)
  BY RefreshLooks
<1> QED
  BY <1>1 DEF Looked, Settled, Final

LEMMA StepSettles ==
    ASSUME Inv, [Next]_vars, NEW j \in Jobs
    PROVE  Settled(j)
<1>1. ASSUME rec'[j] = rec[j] PROVE Settled(j)
  BY <1>1 DEF Settled
<1>2. ASSUME NEW s \in Sessions, Look(s) PROVE Settled(j)
  BY <1>2, RefreshSettles DEF Look
<1>3. ASSUME Tick PROVE Settled(j)
  BY <1>3, RefreshSettles DEF Tick
<1>4. ASSUME NEW k \in Jobs, Kill(k) PROVE Settled(j)
  <2>1. PICK r \in Refreshes : rec' = Killed(r, k)
    BY <1>4 DEF Kill
  <2>2. r \in [Jobs -> Recs] /\ Looked(j, r)
    BY RefreshLooks
  <2>3. CASE rec'[j] = r[j]
    BY <2>3, RefreshSettles
  <2>4. CASE rec'[j] # r[j]
    <3>1. r[j].status = "running"
      BY <2>1, <2>2, <2>4 DEF Killed
    <3>2. rec[j].status \notin Final
      <4>1. r[j] # NoRec
        BY <3>1, NoRecFields
      <4> QED
        BY <2>2, <3>1, <4>1 DEF Looked, Final
    <3> QED
      BY <3>2 DEF Settled
  <2> QED
    BY <2>3, <2>4
<1>5. ASSUME NEW k \in Jobs, Launch(k) PROVE Settled(j)
  <2>1. rec' = [rec EXCEPT ![k].status = "running"] /\ proc[k] = "absent"
    BY <1>5 DEF Launch
  <2>2. rec[k].status = "none"
    BY <2>1, NoRecFields DEF Inv, AllJobs, Job
  <2>3. j = k \/ rec'[j] = rec[j]
    BY <2>1 DEF Inv, TypeOK
  <2> QED
    BY <1>1, <2>2, <2>3 DEF Settled, Final
<1>6. ASSUME NEW k \in Jobs, FollowUpStep(k) PROVE Settled(j)
  <2>1. rec' = Marked(k) \/ rec' = rec
    BY <1>6 DEF FollowUpStep, FollowUpEnds, FollowUpOrphaned, FollowUpFails
  <2>2. rec \in [Jobs -> Recs]
    BY DEF Inv, TypeOK, Recs, Whys
  <2>3. CASE j = k /\ rec' = Marked(k)
    <3>1. rec'[j] = [rec[j] EXCEPT !.followed = TRUE]
      BY <2>2, <2>3 DEF Marked
    <3>2. rec'[j].status = rec[j].status /\ rec'[j].why = rec[j].why
      BY <2>2, <3>1 DEF Recs
    <3>3. rec'[j].followed
      BY <2>2, <3>1 DEF Recs
    <3> QED
      BY <3>2, <3>3 DEF Settled
  <2>4. CASE j # k \/ rec' = rec
    <3>1. rec'[j] = rec[j]
      BY <2>1, <2>2, <2>4 DEF Marked
    <3> QED
      BY <1>1, <3>1
  <2> QED
    BY <2>1, <2>3, <2>4
<1>7. CASE \E k \in Jobs : CommandEnds(k) \/ ExitWritten(k) \/ Vanishes(k) \/ Overdue(k)
  BY <1>1, <1>7 DEF CommandEnds, ExitWritten, Vanishes, Overdue
<1>8. CASE \E s \in Sessions : TurnStarts(s) \/ TurnEnds(s) \/ DeleteSession(s)
  BY <1>1, <1>8 DEF TurnStarts, TurnEnds, DeleteSession
<1>9. CASE Crash \/ Restart \/ UNCHANGED vars
  BY <1>1, <1>9 DEF Crash, Restart, vars
<1> QED
  BY <1>2, <1>3, <1>4, <1>5, <1>6, <1>7, <1>8, <1>9 DEF Next

\* A verdict is final, and its mark is not taken back.
THEOREM VerdictIsFinal == Spec => VerdictFinal
<1>1. Inv /\ [Next]_vars => (\A j \in Jobs : Settled(j))
  BY StepSettles
<1>2. (\A j \in Jobs : Settled(j)) =>
        [\A j \in Jobs :
           rec[j].status \in Final =>
              \/ rec'[j].status = rec[j].status /\ rec'[j].why = rec[j].why
                 /\ (rec[j].followed => rec'[j].followed)
              \/ rec[j].followed /\ rec'[j] = NoRec]_vars
  BY DEF Settled
<1> QED
  BY <1>1, <1>2, InvHolds, PTL DEF Spec, VerdictFinal
=============================================================================
