-------------------------- MODULE OneAtATime_proof --------------------------
(***************************************************************************)
(* Proofs for what the code relies on but does not enforce: one evaluation *)
(* at a time (ContactDecisions), in one process, whose starts come one     *)
(* after the other (InstanceLock).                                         *)
(*                                                                         *)
(* ContactDecisions, for any policies and any length of history.  The row  *)
(* of condition_states is told in terms of the history (Tells): since when *)
(* the present verdict holds, how many times the condition was entered,    *)
(* when it was last met.  Evaluating keeps Tells, and under Tells the gate *)
(* decides as the history says.  The rest of the invariant carries that    *)
(* from the gate to the stored decision, and what _suppress_or_send saw of *)
(* recent contacts to the contact it sends.                                *)
(*                                                                         *)
(* InstanceLock, for any crashes and any reuse of pids.  That the file     *)
(* names the holder is not inductive: a process about to unlink must know  *)
(* that no holder can have appeared since it read the file.  UnlinkIsSafe  *)
(* says so, and OneAcquires keeps anyone else from writing meanwhile.      *)
(***************************************************************************)
EXTENDS ContactDecisions, InstanceLock, FiniteSetTheorems, TLAPS

-----------------------------------------------------------------------------
(* What the row of condition_states tells of the history *)

\* The verdicts came in the order of their times, and none is unknown.
InTime(h) == /\ \A x \in 1 .. Len(h) : h[x].verdict \in {"met", "unmet"} /\ h[x].at \in Nat
             /\ \A x, y \in 1 .. Len(h) : x <= y => h[x].at <= h[y].at

\* The present verdict has been the same since the k-th.
RunFrom(h, k) == /\ \A x \in k .. Len(h) : h[x].verdict = h[Len(h)].verdict
                 /\ k > 1 => h[k - 1].verdict # h[Len(h)].verdict

MetOnceMore(h) == \E k, x, m \in 1 .. Len(h) : /\ k < x /\ x < m
                                               /\ h[k].verdict = "met" /\ h[x].verdict = "unmet"
                                               /\ h[m].verdict = "met"
EverMet(h) == \E k \in 1 .. Len(h) : h[k].verdict = "met"

Tells(c, h) ==
    /\ h = <<>> => c = NoCond
    /\ h # <<>> => /\ c.state = h[Len(h)].verdict
                   /\ \E k \in 1 .. Len(h) : RunFrom(h, k) /\ c.since = h[k].at
    /\ c.episodes \in 0 .. Len(h)
    /\ c.episodes = 0 <=> ~EverMet(h)
    /\ c.episodes > 1 <=> MetOnceMore(h)
    /\ IF EverMet(h)
       THEN \E k \in 1 .. Len(h) : /\ h[k].verdict = "met" /\ c.lastMet = h[k].at
                                   /\ \A x \in k + 1 .. Len(h) : h[x].verdict = "unmet"
       ELSE c.lastMet = -1

-----------------------------------------------------------------------------
(* The inductive invariant, told of values so that it reads the same before *)
(* and after a step                                                        *)

OneAtATime == \A v, w \in Threads : v = w

Steps == {"read", "gate", "snooze", "recent", "store", "retry", "dispatch"}
NotYet == {"read", "gate", "snooze", "recent", "store"}
Against == {"sustain_pending", "held_back", "unmet"}

Job == [revision : Nat, retry : Nat, due : Nat, state : {"open", "stale", "done"}]
Event == [verdict : {"met", "unmet"}, at : Nat]

WorldFits(n, s, ps, js) ==
    /\ n \in 0 .. MaxTime /\ s \in 0 .. MaxTime
    /\ ps \in Seq(Policies) /\ Len(ps) > 0
    /\ js \in Seq(Job) /\ Len(js) <= MaxJobs
    /\ \A j \in 1 .. Len(js) : js[j].revision \in 1 .. Len(ps)

LogFits(n, c, h) == /\ h \in Seq(Event) /\ InTime(h) /\ Tells(c, h)
                    /\ \A x \in 1 .. Len(h) : h[x].at <= n

\* What the gate said agrees with the history.
Agrees(reason, h, p, i) == i > 0 => (reason \notin Against <=> Due(h, p, i))

\* d is the decision on record for job j, r its contact record.
DecisionFits(j, d, r, n, js, h) ==
    /\ d.kind # "none" =>
         /\ j \in 1 .. Len(js) /\ js[j].state = "done"
         /\ d.at \in Nat /\ d.at <= n /\ d.policy \in Policies
         /\ d.seen \in 0 .. Len(h) /\ Agrees(d.reason, h, d.policy, d.seen)
    /\ r # "none" => d.kind = "send"

DecisionsFit(ds, rs, n, js, h) ==
    /\ ds = [j \in JobIds |-> ds[j]] /\ rs = [j \in JobIds |-> rs[j]]
    /\ \A j \in JobIds : DecisionFits(j, ds[j], rs[j], n, js, h)

SentApart(ds) ==
    \A i, j \in JobIds :
       /\ i # j /\ ds[i].kind = "send" /\ ds[j].kind = "send"
       /\ CoolsDown(ds[j].policy)
       /\ \/ ds[i].at < ds[j].at
          \/ ds[i].at = ds[j].at /\ CoolsDown(ds[i].policy)
       => ds[i].at + ds[j].policy.cooldown < ds[j].at

\* An outcome that may be stored.
OutcomeFits(o, at, p, ds) ==
    /\ o.kind # "none"
    /\ o.kind = "send" /\ CoolsDown(p) =>
         \A i \in JobIds : ds[i].kind = "send" => ds[i].at + p.cooldown < at

Shape(t) == t = [step |-> t.step, job |-> t.job, at |-> t.at, verdict |-> t.verdict,
                 policy |-> t.policy, outcome |-> t.outcome, prior |-> t.prior,
                 seen |-> t.seen]

\* An evaluation under way: nothing was written since it began but by itself.
TaskFits(t, n, js, c, h, ds) ==
    /\ Shape(t) /\ t.step \in Steps
    /\ t.job \in 1 .. Len(js) /\ js[t.job].state = "done"
    /\ t.at \in Nat /\ t.at <= n /\ t.policy \in Policies
    /\ t.seen \in 0 .. Len(h) /\ Agrees(t.outcome.reason, h, t.policy, t.seen)
    /\ \A x \in 1 .. Len(h) : h[x].at <= t.at
    /\ \A j \in JobIds : ds[j].kind # "none" => ds[j].at <= t.at
    /\ t.step \in NotYet => ds[t.job].kind = "none"
    /\ t.step \in {"read", "gate"} =>
         /\ t.seen = 0 /\ t.verdict \in {"met", "unmet"}
         /\ t.verdict = "unmet" => t.outcome.kind = "suppress" /\ t.outcome.reason = "unmet"
    /\ t.step = "gate" => t.prior = c
    /\ t.step \in {"snooze", "recent"} /\ t.seen > 0 => t.outcome.reason \notin Against
    /\ t.step = "store" => OutcomeFits(t.outcome, t.at, t.policy, ds)
    /\ t.outcome.reason = "condition_unknown" => t.outcome.eligible \in Nat
    /\ t.step = "retry" => t.outcome.reason = "condition_unknown"
    /\ t.step = "dispatch" => ds[t.job].kind = "send"

TasksFit(ts, n, js, c, h, ds) ==
    /\ ts = [w \in Threads |-> ts[w]]
    /\ \A w \in Threads : ts[w] # Idle => TaskFits(ts[w], n, js, c, h, ds)

IInv == /\ WorldFits(now, snoozed, policy, jobs)
        /\ LogFits(now, cond, log)
        /\ DecisionsFit(decisions, records, now, jobs, log)
        /\ SentApart(decisions)
        /\ TasksFit(task, now, jobs, cond, log, decisions)

-----------------------------------------------------------------------------
(* The history: one verdict more *)

LEMMA Appended ==
    ASSUME NEW h \in Seq(Event), NEW e \in Event
    PROVE  /\ Append(h, e) \in Seq(Event) /\ Len(Append(h, e)) = Len(h) + 1
           /\ Append(h, e) # <<>> /\ Len(h) \in Nat
           /\ h # <<>> <=> Len(h) > 0
           /\ Append(h, e)[Len(h) + 1] = e
           /\ \A x \in 1 .. Len(h) : Append(h, e)[x] = h[x] /\ h[x] \in Event
  OBVIOUS

LEMMA StaysInTime ==
    ASSUME NEW h \in Seq(Event), NEW e \in Event, InTime(h),
           \A x \in 1 .. Len(h) : h[x].at <= e.at
    PROVE  InTime(Append(h, e))
<1> DEFINE g == Append(h, e)
<1>1. /\ Len(g) = Len(h) + 1 /\ Len(h) \in Nat /\ g[Len(h) + 1] = e
      /\ \A x \in 1 .. Len(h) : g[x] = h[x] /\ h[x] \in Event
  BY Appended
<1> HIDE DEF g
<1>2. \A x \in 1 .. Len(g) : g[x].verdict \in {"met", "unmet"} /\ g[x].at \in Nat
  BY <1>1 DEF Event
<1>3. \A x, y \in 1 .. Len(g) : x <= y => g[x].at <= g[y].at
  BY <1>1 DEF InTime, Event
<1>4. InTime(g)
  BY <1>2, <1>3 DEF InTime
<1> QED BY <1>4 DEF g

\* What was due stays due.
LEMMA DueStays ==
    ASSUME NEW h \in Seq(Event), NEW e \in Event, NEW p \in PolicyType, NEW i \in 1 .. Len(h)
    PROVE  Due(Append(h, e), p, i) <=> Due(h, p, i)
<1> DEFINE g == Append(h, e)
<1>1. Len(h) \in Nat /\ \A x \in 1 .. Len(h) : g[x] = h[x] /\ h[x] \in Event
  BY Appended
<1> HIDE DEF g
<1>2. Sustained(g, p, i) <=> Sustained(h, p, i)
  BY <1>1 DEF Sustained, MetFrom
<1>3. LeftBefore(g, i) <=> LeftBefore(h, i)
  BY <1>1 DEF LeftBefore
<1>4. LastMetBefore(g, i) = LastMetBefore(h, i)
  BY <1>1 DEF LastMetBefore
<1>5. \A k \in 1 .. i - 1 : /\ g[k] = h[k]
                            /\ MetFrom(g, k, i) <=> MetFrom(h, k, i)
  BY <1>1 DEF MetFrom
<1>6. \A k \in LastMetBefore(h, i) : g[k] = h[k]
  BY <1>1 DEF LastMetBefore
<1>7. g[i] = h[i]
  BY <1>1
<1>8. Due(g, p, i) <=> Due(h, p, i)
  <2>1. CASE p.notifyOn = "level"
    BY <2>1, <1>2, <1>7 DEF Due
  <2>2. CASE p.notifyOn = "transition"
    BY <2>2, <1>2, <1>3, <1>7 DEF Due
  <2>3. CASE p.notifyOn = "first_entry"
    BY <2>3, <1>2, <1>5, <1>7 DEF Due
  <2>4. CASE p.notifyOn = "reentry"
    BY <2>4, <1>2, <1>3, <1>4, <1>6, <1>7 DEF Due
  <2> QED BY <2>1, <2>2, <2>3, <2>4 DEF PolicyType
<1> QED BY <1>8 DEF g

-----------------------------------------------------------------------------
(* NextCond keeps what the row tells *)

LEMMA RunGoesOn ==
    ASSUME NEW h \in Seq(Event), NEW e \in Event, NEW c, Tells(c, h)
    PROVE  \E k \in 1 .. Len(h) + 1 :
              /\ RunFrom(Append(h, e), k)
              /\ NextCond(c, e.verdict, e.at).since = Append(h, e)[k].at
<1> DEFINE g == Append(h, e)
<1>1. /\ Len(g) = Len(h) + 1 /\ Len(h) \in Nat /\ g[Len(h) + 1] = e
      /\ h # <<>> <=> Len(h) > 0
      /\ \A x \in 1 .. Len(h) : g[x] = h[x] /\ h[x] \in Event
  BY Appended
<1> HIDE DEF g
<1>2. CASE e.verdict = c.state
  <2>1. h # <<>>
    BY <1>2 DEF Tells, NoCond, Event
  <2>2. PICK k \in 1 .. Len(h) : RunFrom(h, k) /\ c.since = h[k].at
    BY <2>1 DEF Tells
  <2>3. h[Len(h)].verdict = e.verdict
    BY <2>1, <1>2 DEF Tells
  <2>4. RunFrom(g, k)
    BY <2>1, <2>2, <2>3, <1>1 DEF RunFrom
  <2>5. NextCond(c, e.verdict, e.at).since = g[k].at
    BY <2>2, <1>1, <1>2 DEF NextCond
  <2>6. k \in 1 .. Len(h) + 1
    BY <1>1
  <2> QED BY <2>4, <2>5, <2>6 DEF g
<1>3. CASE e.verdict # c.state
  <2>1. Len(h) > 0 => h[Len(h)].verdict # e.verdict
    BY <1>3, <1>1 DEF Tells
  <2>2. RunFrom(g, Len(h) + 1)
    BY <2>1, <1>1 DEF RunFrom
  <2>3. NextCond(c, e.verdict, e.at).since = g[Len(h) + 1].at
    BY <1>1, <1>3 DEF NextCond
  <2> QED BY <2>2, <2>3, <1>1 DEF g
<1> QED BY <1>2, <1>3

LEMMA EpisodesGoOn ==
    ASSUME NEW h \in Seq(Event), NEW e \in Event, NEW c, Tells(c, h)
    PROVE  LET n == NextCond(c, e.verdict, e.at).episodes
           IN  /\ n \in 0 .. Len(h) + 1
               /\ n = 0 <=> ~EverMet(Append(h, e))
               /\ n > 1 <=> MetOnceMore(Append(h, e))
<1> DEFINE g == Append(h, e)
           n == NextCond(c, e.verdict, e.at).episodes
<1>1. /\ Len(g) = Len(h) + 1 /\ Len(h) \in Nat /\ g[Len(h) + 1] = e
      /\ h # <<>> <=> Len(h) > 0
      /\ \A x \in 1 .. Len(h) : g[x] = h[x] /\ h[x] \in Event
  BY Appended
<1> HIDE DEF g
<1>2. n = c.episodes + (IF Entering(c, e.verdict) THEN 1 ELSE 0)
  BY DEF NextCond
<1> HIDE DEF n
<1>3. /\ c.episodes \in 0 .. Len(h)
      /\ c.episodes = 0 <=> ~EverMet(h)
      /\ c.episodes > 1 <=> MetOnceMore(h)
      /\ Len(h) > 0 => c.state = h[Len(h)].verdict
      /\ Len(h) = 0 => c.state = "none" /\ c.episodes = 0
  BY <1>1 DEF Tells, NoCond
<1>4. CASE e.verdict = "unmet"
  <2>1. n = c.episodes
    BY <1>4, <1>2, <1>3 DEF Entering
  <2>2. EverMet(g) <=> EverMet(h)
    BY <1>1, <1>4 DEF EverMet
  <2>3. MetOnceMore(g) <=> MetOnceMore(h)
    BY <1>1, <1>4 DEF MetOnceMore
  <2> QED BY <2>1, <2>2, <2>3, <1>1, <1>3 DEF g, n
<1>5. CASE e.verdict = "met" /\ c.state = "met"
  <2>1. n = c.episodes
    BY <1>5, <1>2, <1>3 DEF Entering
  <2>2. Len(h) > 0 /\ h[Len(h)].verdict = "met"
    BY <1>5, <1>3, <1>1
  <2>3. EverMet(g) /\ EverMet(h)
    BY <2>2, <1>1, <1>5 DEF EverMet
  <2>4. MetOnceMore(h) => MetOnceMore(g)
    BY <1>1 DEF MetOnceMore
  <2>5. ASSUME MetOnceMore(g) PROVE MetOnceMore(h)
    <3>1. PICK k, x, m \in 1 .. Len(g) : /\ k < x /\ x < m
                                         /\ g[k].verdict = "met" /\ g[x].verdict = "unmet"
                                         /\ g[m].verdict = "met"
      BY <2>5 DEF MetOnceMore
    <3>2. k \in 1 .. Len(h) /\ x \in 1 .. Len(h) /\ x # Len(h)
      BY <3>1, <1>1, <2>2
    <3>3. h[k].verdict = "met" /\ h[x].verdict = "unmet" /\ x < Len(h) /\ Len(h) \in 1 .. Len(h)
      BY <3>1, <3>2, <1>1
    <3> QED BY <3>1, <3>2, <3>3, <2>2 DEF MetOnceMore
  <2> QED BY <2>1, <2>3, <2>4, <2>5, <1>1, <1>3 DEF g, n
<1>6. CASE e.verdict = "met" /\ c.state # "met"
  <2>1. n = c.episodes + 1
    BY <1>6, <1>2, <1>3 DEF Entering
  <2>2. EverMet(g)
    BY <1>1, <1>6 DEF EverMet
  <2>3. Len(h) > 0 => h[Len(h)].verdict = "unmet"
    BY <1>6, <1>3, <1>1 DEF Event
  <2>4. ASSUME EverMet(h) PROVE MetOnceMore(g)
    <3>1. PICK k \in 1 .. Len(h) : h[k].verdict = "met"
      BY <2>4 DEF EverMet
    <3>2. k < Len(h)
      BY <3>1, <2>3, <1>1
    <3>3. /\ k \in 1 .. Len(g) /\ Len(h) \in 1 .. Len(g) /\ Len(h) + 1 \in 1 .. Len(g)
          /\ g[k].verdict = "met" /\ g[Len(h)].verdict = "unmet" /\ g[Len(h) + 1].verdict = "met"
      BY <3>1, <3>2, <2>3, <1>1, <1>6
    <3> QED BY <3>2, <3>3, <1>1 DEF MetOnceMore
  <2>5. ASSUME MetOnceMore(g) PROVE EverMet(h)
    BY <2>5, <1>1 DEF MetOnceMore, EverMet
  <2> QED BY <2>1, <2>2, <2>4, <2>5, <1>1, <1>3 DEF g, n
<1> QED BY <1>4, <1>5, <1>6 DEF Event

LEMMA LastMetGoesOn ==
    ASSUME NEW h \in Seq(Event), NEW e \in Event, NEW c, Tells(c, h)
    PROVE  IF EverMet(Append(h, e))
           THEN \E k \in 1 .. Len(h) + 1 :
                   /\ Append(h, e)[k].verdict = "met"
                   /\ NextCond(c, e.verdict, e.at).lastMet = Append(h, e)[k].at
                   /\ \A x \in k + 1 .. Len(h) + 1 : Append(h, e)[x].verdict = "unmet"
           ELSE NextCond(c, e.verdict, e.at).lastMet = -1
<1> DEFINE g == Append(h, e)
<1>1. /\ Len(g) = Len(h) + 1 /\ Len(h) \in Nat /\ g[Len(h) + 1] = e
      /\ \A x \in 1 .. Len(h) : g[x] = h[x] /\ h[x] \in Event
  BY Appended
<1> HIDE DEF g
<1>2. CASE e.verdict = "met"
  <2>1. EverMet(g)
    BY <1>1, <1>2 DEF EverMet
  <2>2. NextCond(c, e.verdict, e.at).lastMet = g[Len(h) + 1].at
    BY <1>1, <1>2 DEF NextCond
  <2>3. \A x \in Len(h) + 1 + 1 .. Len(h) + 1 : g[x].verdict = "unmet"
    BY <1>1
  <2>4. Len(h) + 1 \in 1 .. Len(h) + 1 /\ g[Len(h) + 1].verdict = "met"
    BY <1>1, <1>2
  <2> QED BY <2>1, <2>2, <2>3, <2>4 DEF g
<1>3. CASE e.verdict = "unmet"
  <2>1. EverMet(g) <=> EverMet(h)
    BY <1>1, <1>3 DEF EverMet
  <2>2. NextCond(c, e.verdict, e.at).lastMet = c.lastMet
    BY <1>3 DEF NextCond
  <2>3. ASSUME EverMet(h)
        PROVE  \E k \in 1 .. Len(h) + 1 :
                  /\ g[k].verdict = "met" /\ c.lastMet = g[k].at
                  /\ \A x \in k + 1 .. Len(h) + 1 : g[x].verdict = "unmet"
    <3>1. PICK k \in 1 .. Len(h) : /\ h[k].verdict = "met" /\ c.lastMet = h[k].at
                                   /\ \A x \in k + 1 .. Len(h) : h[x].verdict = "unmet"
      BY <2>3 DEF Tells
    <3>2. \A x \in k + 1 .. Len(h) + 1 : g[x].verdict = "unmet"
      BY <3>1, <1>1, <1>3
    <3> QED BY <3>1, <3>2, <1>1
  <2> QED BY <2>1, <2>2, <2>3 DEF g, Tells
<1> QED BY <1>2, <1>3 DEF Event

LEMMA TellsOn ==
    ASSUME NEW h \in Seq(Event), NEW e \in Event, NEW c, Tells(c, h)
    PROVE  Tells(NextCond(c, e.verdict, e.at), Append(h, e))
<1> DEFINE g == Append(h, e)
           d == NextCond(c, e.verdict, e.at)
<1>1. Len(g) = Len(h) + 1 /\ g # <<>> /\ g[Len(g)] = e
  BY Appended
<1>2. d.state = g[Len(g)].verdict
  BY <1>1 DEF NextCond
<1>3. \E k \in 1 .. Len(g) : RunFrom(g, k) /\ d.since = g[k].at
  BY <1>1, RunGoesOn
<1>4. /\ d.episodes \in 0 .. Len(g)
      /\ d.episodes = 0 <=> ~EverMet(g)
      /\ d.episodes > 1 <=> MetOnceMore(g)
  BY <1>1, EpisodesGoOn
<1>5. IF EverMet(g)
      THEN \E k \in 1 .. Len(g) : /\ g[k].verdict = "met" /\ d.lastMet = g[k].at
                                  /\ \A x \in k + 1 .. Len(g) : g[x].verdict = "unmet"
      ELSE d.lastMet = -1
  BY <1>1, LastMetGoesOn
<1> HIDE DEF g, d
<1>6. Tells(d, g)
  BY <1>1, <1>2, <1>3, <1>4, <1>5 DEF Tells
<1> QED BY <1>6 DEF g, d

-----------------------------------------------------------------------------
(* The gate decides by the row as the history would *)

LEMMA SinceIsSustained ==
    ASSUME NEW g \in Seq(Event), Len(g) > 0, InTime(g), g[Len(g)].verdict = "met",
           NEW p \in PolicyType, NEW n,
           \E k \in 1 .. Len(g) : RunFrom(g, k) /\ n.since = g[k].at
    PROVE  /\ Sustained(g, p, Len(g)) <=> g[Len(g)].at >= n.since + p.sustain
           /\ n.since \in Nat /\ n.since <= g[Len(g)].at
<1>1. PICK k \in 1 .. Len(g) : RunFrom(g, k) /\ n.since = g[k].at
  OBVIOUS
<1>2. Len(g) \in Nat /\ p.sustain \in Nat /\ \A x \in 1 .. Len(g) : g[x].at \in Nat
  BY DEF InTime, PolicyType
<1>3. MetFrom(g, k, Len(g))
  BY <1>1 DEF RunFrom, MetFrom
<1>4. n.since \in Nat /\ n.since <= g[Len(g)].at
  BY <1>1, <1>2 DEF InTime
<1>5. ASSUME g[Len(g)].at >= n.since + p.sustain PROVE Sustained(g, p, Len(g))
  BY <1>1, <1>2, <1>3, <1>5 DEF Sustained
<1>6. ASSUME Sustained(g, p, Len(g)) PROVE g[Len(g)].at >= n.since + p.sustain
  <2>1. PICK m \in 1 .. Len(g) : MetFrom(g, m, Len(g)) /\ g[m].at + p.sustain <= g[Len(g)].at
    BY <1>6 DEF Sustained
  <2>2. k <= m
    BY <1>1, <1>2, <2>1 DEF RunFrom, MetFrom
  <2>3. g[k].at <= g[m].at
    BY <2>2 DEF InTime
  <2> QED BY <1>1, <1>2, <2>1, <2>3
<1> QED BY <1>4, <1>5, <1>6

LEMMA HeldBackIsNotDue ==
    ASSUME NEW h \in Seq(Event), NEW e \in Event, NEW c, NEW p \in PolicyType,
           Tells(c, h), InTime(h), e.verdict = "met",
           \A x \in 1 .. Len(h) : h[x].at <= e.at,
           Sustained(Append(h, e), p, Len(h) + 1)
    PROVE  ~HeldBack(p, c, NextCond(c, "met", e.at), e.at)
              <=> Due(Append(h, e), p, Len(h) + 1)
<1> DEFINE g == Append(h, e)
           i == Len(h) + 1
           n == NextCond(c, "met", e.at)
<1>1. /\ Len(g) = Len(h) + 1 /\ Len(h) \in Nat /\ g[Len(h) + 1] = e
      /\ h # <<>> <=> Len(h) > 0
      /\ \A x \in 1 .. Len(h) : g[x] = h[x] /\ h[x] \in Event
  BY Appended
<1>2. Tells(n, g)
  BY TellsOn
<1>3. /\ Len(h) > 0 => c.state = h[Len(h)].verdict
      /\ Len(h) = 0 => c.state = "none" /\ c.episodes = 0
  BY <1>1 DEF Tells, NoCond
<1>4. Sustained(g, p, i)
  OBVIOUS
<1> HIDE DEF g, n
<1>5. LeftBefore(g, i) <=> c.state = "unmet"
  BY <1>1, <1>3 DEF LeftBefore
<1>6. CASE p.notifyOn = "level"
  BY <1>6, <1>1, <1>4 DEF HeldBack, Due, g, n
<1>7. CASE p.notifyOn = "transition"
  <2>1. Entering(c, "met") <=> i = 1 \/ LeftBefore(g, i)
    BY <1>1, <1>3, <1>5 DEF Entering, Event
  <2> QED BY <1>7, <2>1, <1>1, <1>4 DEF HeldBack, Due, g, n
<1>8. CASE p.notifyOn = "first_entry"
  <2>1. n.episodes > 1 <=> MetOnceMore(g)
    BY <1>2 DEF Tells
  <2>2. ASSUME MetOnceMore(g) PROVE \E k \in 1 .. i - 1 : g[k].verdict = "met" /\ ~MetFrom(g, k, i)
    <3>1. PICK k, x, m \in 1 .. Len(g) : /\ k < x /\ x < m
                                         /\ g[k].verdict = "met" /\ g[x].verdict = "unmet"
                                         /\ g[m].verdict = "met"
      BY <2>2 DEF MetOnceMore
    <3>2. k \in 1 .. i - 1 /\ x \in k .. i
      BY <3>1, <1>1
    <3>3. ~MetFrom(g, k, i)
      BY <3>1, <3>2 DEF MetFrom
    <3> QED BY <3>1, <3>2, <3>3
  <2>3. ASSUME NEW k \in 1 .. i - 1, g[k].verdict = "met", ~MetFrom(g, k, i) PROVE MetOnceMore(g)
    <3>1. PICK x \in k .. i : g[x].verdict # "met"
      BY <2>3 DEF MetFrom
    <3>2. x # i /\ x # k
      BY <3>1, <1>1, <2>3
    <3>3. k < x /\ x < i /\ x \in 1 .. Len(h)
      BY <3>2, <1>1
    <3>4. g[x].verdict = "unmet"
      BY <3>1, <3>3, <1>1 DEF Event
    <3>5. g[i].verdict = "met" /\ k \in 1 .. Len(g) /\ x \in 1 .. Len(g) /\ i \in 1 .. Len(g)
      BY <1>1, <3>3
    <3> QED BY <2>3, <3>3, <3>4, <3>5 DEF MetOnceMore
  <2> QED BY <1>8, <2>1, <2>2, <2>3, <1>1, <1>4 DEF HeldBack, Due, g, n
<1>9. CASE p.notifyOn = "reentry"
  <2>1. ASSUME c.state = "unmet"
        PROVE  c.episodes >= 1 /\ ~(p.reentry > 0 /\ e.at < c.lastMet + p.reentry)
                 <=> \E k \in LastMetBefore(g, i) : g[i].at >= g[k].at + p.reentry
    <3>1. c.episodes \in Nat /\ (c.episodes >= 1 <=> EverMet(h))
      BY <1>1 DEF Tells
    <3>2. \A k \in LastMetBefore(g, i) : k \in 1 .. Len(h) /\ h[k].verdict = "met"
      BY <1>1 DEF LastMetBefore
    <3>3. CASE ~EverMet(h)
      BY <3>1, <3>2, <3>3 DEF EverMet
    <3>4. CASE EverMet(h)
      <4>1. PICK k \in 1 .. Len(h) : /\ h[k].verdict = "met" /\ c.lastMet = h[k].at
                                     /\ \A x \in k + 1 .. Len(h) : h[x].verdict = "unmet"
        BY <3>4 DEF Tells
      <4>2. k \in LastMetBefore(g, i)
        BY <4>1, <1>1 DEF LastMetBefore
      <4>3. \A m \in LastMetBefore(g, i) : m = k
        <5> TAKE m \in LastMetBefore(g, i)
        <5>1. /\ m \in 1 .. Len(h) /\ h[m].verdict = "met"
              /\ \A x \in m + 1 .. Len(h) : h[x].verdict = "unmet"
          BY <1>1 DEF LastMetBefore
        <5> QED BY <5>1, <4>1, <1>1
      <4>4. /\ g[k].at = c.lastMet /\ g[i].at = e.at /\ c.lastMet <= e.at
            /\ c.lastMet \in Nat /\ e.at \in Nat /\ p.reentry \in Nat
        BY <4>1, <1>1 DEF Event, PolicyType
      <4> QED BY <3>1, <3>4, <4>2, <4>3, <4>4
    <3> QED BY <3>3, <3>4
  <2> QED BY <1>9, <2>1, <1>1, <1>4, <1>5 DEF HeldBack, Due, g, n
<1> QED BY <1>6, <1>7, <1>8, <1>9 DEF PolicyType

LEMMA GateIsDue ==
    ASSUME NEW h \in Seq(Event), NEW e \in Event, NEW c, NEW p \in PolicyType,
           Tells(c, h), InTime(h), e.verdict = "met",
           \A x \in 1 .. Len(h) : h[x].at <= e.at
    PROVE  Gate(p, c, NextCond(c, "met", e.at), e.at).reason \notin Against
              <=> Due(Append(h, e), p, Len(h) + 1)
<1> DEFINE g == Append(h, e)
           n == NextCond(c, "met", e.at)
<1>1. g \in Seq(Event) /\ Len(g) = Len(h) + 1 /\ Len(g) > 0 /\ g[Len(g)] = e
  BY Appended
<1>2. Tells(n, g) /\ InTime(g) /\ g # <<>>
  BY TellsOn, StaysInTime, Appended
<1>3. \E k \in 1 .. Len(g) : RunFrom(g, k) /\ n.since = g[k].at
  BY <1>2 DEF Tells
<1> HIDE DEF g, n
<1>4. /\ Sustained(g, p, Len(g)) <=> e.at >= n.since + p.sustain
      /\ n.since \in Nat /\ n.since <= e.at
  BY <1>1, <1>2, <1>3, SinceIsSustained
<1>5. e.at \in Nat /\ p.sustain \in Nat
  BY DEF Event, PolicyType
<1>6. CASE Sustained(g, p, Len(g))
  <2>1. ~(p.sustain > 0 /\ e.at < n.since + p.sustain)
    BY <1>4, <1>5, <1>6
  <2>2. Gate(p, c, n, e.at).reason = IF HeldBack(p, c, n, e.at) THEN "held_back" ELSE "met"
    BY <2>1 DEF Gate, Outcome
  <2>3. ~HeldBack(p, c, n, e.at) <=> Due(g, p, Len(h) + 1)
    BY <1>1, <1>6, HeldBackIsNotDue DEF g, n
  <2> QED BY <2>2, <2>3 DEF Against, g, n
<1>7. CASE ~Sustained(g, p, Len(g))
  <2>1. p.sustain > 0 /\ e.at < n.since + p.sustain
    BY <1>4, <1>5, <1>7
  <2>2. Gate(p, c, n, e.at).reason = "sustain_pending"
    BY <2>1 DEF Gate, Outcome
  <2>3. ~Due(g, p, Len(h) + 1)
    BY <1>1, <1>7 DEF Due
  <2> QED BY <2>2, <2>3 DEF Against, g, n
<1> QED BY <1>6, <1>7

-----------------------------------------------------------------------------
(* What a step leaves alone *)

\* The queue may grow and lose open jobs; a job that is done stays done.
DoneStays(js, ks) == \A j \in 1 .. Len(js) :
    js[j].state = "done" => j \in 1 .. Len(ks) /\ ks[j].state = "done"

LEMMA DecisionsStay ==
    ASSUME NEW n \in Int, NEW m \in Int, n <= m, NEW js, NEW ks, DoneStays(js, ks),
           NEW h, NEW ds, NEW rs, DecisionsFit(ds, rs, n, js, h)
    PROVE  DecisionsFit(ds, rs, m, ks, h)
<1>1. \A j \in JobIds : DecisionFits(j, ds[j], rs[j], m, ks, h)
  BY DEF DecisionsFit, DecisionFits, DoneStays
<1> QED BY <1>1 DEF DecisionsFit

LEMMA TasksStay ==
    ASSUME NEW n \in Int, NEW m \in Int, n <= m, NEW js, NEW ks, DoneStays(js, ks),
           NEW c, NEW h, NEW ds, NEW ts, TasksFit(ts, n, js, c, h, ds)
    PROVE  TasksFit(ts, m, ks, c, h, ds)
<1>1. ASSUME NEW w \in Threads, ts[w] # Idle PROVE TaskFits(ts[w], m, ks, c, h, ds)
  BY <1>1 DEF TasksFit, TaskFits, DoneStays
<1> QED BY <1>1 DEF TasksFit

\* The only thread that evaluates is done.
LEMMA OneIsDone ==
    ASSUME OneAtATime, NEW w \in Threads, NEW ts, ts = [v \in Threads |-> ts[v]],
           NEW n, NEW js, NEW c, NEW h, NEW ds
    PROVE  TasksFit([ts EXCEPT ![w] = Idle], n, js, c, h, ds)
  BY DEF TasksFit, OneAtATime

\* ... or has come to where it fits.
LEMMA OneFits ==
    ASSUME OneAtATime, NEW w \in Threads, NEW ts, ts = [v \in Threads |-> ts[v]],
           NEW n, NEW js, NEW c, NEW h, NEW ds, NEW t, TaskFits(t, n, js, c, h, ds)
    PROVE  TasksFit([ts EXCEPT ![w] = t], n, js, c, h, ds)
  BY DEF TasksFit, OneAtATime

-----------------------------------------------------------------------------
(* The clock, the user and the job queue *)

LEMMA WorldSteps ==
    ASSUME IInv,
           \/ Tick \/ Pause \/ Resume \/ Revise \/ CreateJob
           \/ \E until \in 1 .. MaxTime : Snooze(until)
    PROVE  /\ WorldFits(now, snoozed, policy, jobs)'
           /\ DoneStays(jobs, jobs') /\ now \in Int /\ now' \in Int /\ now <= now'
           /\ UNCHANGED <<cond, decisions, records, task, log>>
<1> USE DEF WorldFits
<1>1. CASE Tick
  BY <1>1, ContactAssumption DEF Tick, IInv, mandateVars, DoneStays
<1>2. CASE Pause
  <2>1. PICK running \in SUBSET {j \in DOMAIN jobs : jobs[j].due <= now} :
           jobs' = [j \in DOMAIN jobs |->
                      IF jobs[j].state # "open" THEN jobs[j]
                      ELSE [jobs[j] EXCEPT !.state = IF j \in running THEN "stale" ELSE "done"]]
    BY <1>2 DEF Pause
  <2>2. jobs \in Seq(Job) /\ DOMAIN jobs = 1 .. Len(jobs) /\ Len(jobs) \in Nat
    BY DEF IInv
  <2>3. ASSUME NEW j \in 1 .. Len(jobs)
        PROVE  /\ jobs'[j] \in Job
               /\ jobs'[j].revision = jobs[j].revision
               /\ jobs[j].state = "done" => jobs'[j].state = "done"
    <3>1. jobs[j] \in Job
      BY <2>2
    <3>2. \/ jobs'[j] = jobs[j]
          \/ /\ jobs[j].state = "open"
             /\ \E s \in {"stale", "done"} : jobs'[j] = [jobs[j] EXCEPT !.state = s]
      BY <2>1, <2>2
    <3> QED BY <3>1, <3>2 DEF Job
  <2>4. jobs' \in Seq(Job) /\ Len(jobs') = Len(jobs)
    BY <2>1, <2>2, <2>3
  <2> QED BY <1>2, <2>2, <2>3, <2>4, ContactAssumption DEF Pause, IInv, DoneStays
<1>3. CASE Resume
  BY <1>3, ContactAssumption DEF Resume, IInv, DoneStays
<1>4. CASE Revise
  <2>1. PICK p \in Policies : policy' = Append(policy, p)
    BY <1>4 DEF Revise
  <2>2. policy' \in Seq(Policies) /\ Len(policy') = Len(policy) + 1 /\ Len(policy) \in Nat
    BY <2>1 DEF IInv
  <2> QED BY <1>4, <2>2, ContactAssumption DEF Revise, IInv, DoneStays
<1>5. CASE CreateJob
  <2>1. Len(policy) \in Nat /\ NewJob(Revision, 0, 0) \in Job
        /\ NewJob(Revision, 0, 0).revision = Len(policy)
    BY DEF IInv, NewJob, Job, Revision
  <2>2. /\ jobs' \in Seq(Job) /\ Len(jobs') = Len(jobs) + 1 /\ Len(jobs) \in Nat
        /\ \A j \in 1 .. Len(jobs) : jobs'[j] = jobs[j]
        /\ jobs'[Len(jobs) + 1] = NewJob(Revision, 0, 0)
    BY <1>5, <2>1 DEF CreateJob, IInv
  <2> QED BY <1>5, <2>1, <2>2, ContactAssumption DEF CreateJob, IInv, DoneStays, mandateVars
<1>6. CASE \E until \in 1 .. MaxTime : Snooze(until)
  BY <1>6, ContactAssumption DEF Snooze, IInv, DoneStays
<1> QED BY <1>1, <1>2, <1>3, <1>4, <1>5, <1>6

LEMMA WorldIInv ==
    ASSUME IInv,
           \/ Tick \/ Pause \/ Resume \/ Revise \/ CreateJob
           \/ \E until \in 1 .. MaxTime : Snooze(until)
    PROVE  IInv'
<1>1. /\ WorldFits(now, snoozed, policy, jobs)'
      /\ DoneStays(jobs, jobs') /\ now \in Int /\ now' \in Int /\ now <= now'
      /\ UNCHANGED <<cond, decisions, records, task, log>>
  BY WorldSteps
<1>2. LogFits(now, cond, log)'
  BY <1>1 DEF IInv, LogFits, InTime
<1>3. DecisionsFit(decisions, records, now, jobs, log)'
  BY <1>1, DecisionsStay DEF IInv
<1>4. TasksFit(task, now, jobs, cond, log, decisions)'
  BY <1>1, TasksStay DEF IInv
<1> QED BY <1>1, <1>2, <1>3, <1>4 DEF IInv

-----------------------------------------------------------------------------
(* One evaluation, step by step *)

\* t with another step, outcome, prior row and number of the verdict it saw.
Put(t, s, o, c, i) == [step |-> s, job |-> t.job, at |-> t.at, verdict |-> t.verdict,
                       policy |-> t.policy, outcome |-> o, prior |-> c, seen |-> i]

LEMMA PutHas ==
    ASSUME NEW t, NEW s, NEW o, NEW c, NEW i
    PROVE  LET u == Put(t, s, o, c, i)
           IN  /\ Shape(u)
               /\ u.step = s
               /\ u.job = t.job
               /\ u.at = t.at
               /\ u.verdict = t.verdict
               /\ u.policy = t.policy
               /\ u.outcome = o
               /\ u.prior = c
               /\ u.seen = i
  BY DEF Put, Shape

LEMMA Assigned ==
    ASSUME NEW t, Shape(t), NEW s, NEW o, NEW c
    PROVE  /\ [t EXCEPT !.step = s] = Put(t, s, t.outcome, t.prior, t.seen)
           /\ [t EXCEPT !.prior = c, !.step = s] = Put(t, s, t.outcome, c, t.seen)
           /\ [t EXCEPT !.outcome = o, !.step = s] = Put(t, s, o, t.prior, t.seen)
<1> DEFINE r == Put(t, t.step, t.outcome, t.prior, t.seen)
           rc == Put(t, t.step, t.outcome, c, t.seen)
           ro == Put(t, t.step, o, t.prior, t.seen)
<1>1. t = r
  BY DEF Shape, Put
<1>2. /\ [r EXCEPT !.step = s] = Put(t, s, t.outcome, t.prior, t.seen)
      /\ [r EXCEPT !.prior = c] = rc
      /\ [rc EXCEPT !.step = s] = Put(t, s, t.outcome, c, t.seen)
      /\ [r EXCEPT !.outcome = o] = ro
      /\ [ro EXCEPT !.step = s] = Put(t, s, o, t.prior, t.seen)
  BY DEF Put
<1>3. /\ [t EXCEPT !.prior = c, !.step = s] = [[t EXCEPT !.prior = c] EXCEPT !.step = s]
      /\ [t EXCEPT !.outcome = o, !.step = s] = [[t EXCEPT !.outcome = o] EXCEPT !.step = s]
  BY Zenon
<1> HIDE DEF r, rc, ro
<1> QED BY <1>1, <1>2, <1>3, Zenon

\* The assignment of SaveState.
Saved(t, s, o, i) == [t EXCEPT !.outcome = o, !.step = s, !.seen = i]

LEMMA SavedPut ==
    ASSUME NEW t, Shape(t), NEW s, NEW o, NEW i
    PROVE  Saved(t, s, o, i) = Put(t, s, o, t.prior, i)
<1> DEFINE r == Put(t, t.step, t.outcome, t.prior, t.seen)
           ro == Put(t, t.step, o, t.prior, t.seen)
           rs == Put(t, s, o, t.prior, t.seen)
<1>1. t = r
  BY DEF Shape, Put
<1>2. /\ [r EXCEPT !.outcome = o] = ro
      /\ [ro EXCEPT !.step = s] = rs
      /\ [rs EXCEPT !.seen = i] = Put(t, s, o, t.prior, i)
  BY DEF Put
<1>3. [t EXCEPT !.outcome = o, !.step = s, !.seen = i]
        = [[[t EXCEPT !.outcome = o] EXCEPT !.step = s] EXCEPT !.seen = i]
  BY Zenon
<1> HIDE DEF r, ro, rs
<1> QED BY <1>1, <1>2, <1>3, Zenon DEF Saved

LEMMA OutcomeOf ==
    ASSUME NEW k, NEW r, NEW e
    PROVE  /\ Outcome(k, r, e).kind = k /\ Outcome(k, r, e).reason = r
           /\ Outcome(k, r, e).eligible = e
  BY DEF Outcome

LEMMA UnderWay ==
    ASSUME IInv, NEW w \in Threads, task[w] # Idle
    PROVE  TaskFits(task[w], now, jobs, cond, log, decisions)
  BY DEF IInv, TasksFit

\* Steps that only move the evaluation on.
LEMMA Moves ==
    ASSUME OneAtATime, IInv, NEW w \in Threads, NEW u,
           task' = [task EXCEPT ![w] = u],
           TaskFits(u, now, jobs, cond, log, decisions),
           UNCHANGED <<now, mandateVars, jobs, cond, decisions, records, log>>
    PROVE  IInv'
<1>1. TasksFit([task EXCEPT ![w] = u], now, jobs, cond, log, decisions)
  BY OneFits DEF IInv, TasksFit
<1>2. TasksFit(task, now, jobs, cond, log, decisions)'
  BY <1>1
<1> QED BY <1>2 DEF IInv, mandateVars

LEMMA ReadStateIInv ==
    ASSUME OneAtATime, IInv, NEW w \in Threads, ReadState(w)
    PROVE  IInv'
<1> DEFINE t == task[w]
           u == [t EXCEPT !.prior = cond, !.step = "gate"]
<1>1. t.step = "read" /\ t # Idle
  BY DEF ReadState, Idle
<1>2. TaskFits(t, now, jobs, cond, log, decisions)
  BY <1>1, UnderWay
<1>3. task' = [task EXCEPT ![w] = u]
  BY DEF ReadState, IInv, TasksFit
<1>4. Shape(t)
  BY <1>2 DEF TaskFits
<1> HIDE DEF t
<1>5a. u = Put(t, "gate", t.outcome, cond, t.seen)
  BY <1>4, Assigned
<1>5. /\ Shape(u) /\ u.step = "gate" /\ u.job = t.job /\ u.at = t.at
      /\ u.verdict = t.verdict /\ u.policy = t.policy /\ u.outcome = t.outcome
      /\ u.prior = cond /\ u.seen = t.seen
  BY <1>5a, PutHas
<1> HIDE DEF u
<1>6. TaskFits(u, now, jobs, cond, log, decisions)
  BY <1>1, <1>2, <1>5 DEF TaskFits, Steps, NotYet
<1> QED BY <1>3, <1>6, Moves DEF ReadState

LEMMA CheckSnoozeIInv ==
    ASSUME OneAtATime, IInv, NEW w \in Threads, CheckSnooze(w)
    PROVE  IInv'
<1> DEFINE t == task[w]
           u == IF snoozed > t.at
                THEN [t EXCEPT !.outcome = Outcome("suppress", "snoozed", snoozed), !.step = "store"]
                ELSE [t EXCEPT !.step = "recent"]
<1>1. t.step = "snooze" /\ t # Idle
  BY DEF CheckSnooze, Idle
<1>2. TaskFits(t, now, jobs, cond, log, decisions)
  BY <1>1, UnderWay
<1>3. task' = [task EXCEPT ![w] = u]
  BY DEF CheckSnooze, IInv, TasksFit
<1>4. Shape(t)
  BY <1>2 DEF TaskFits
<1>5. "snoozed" \notin Against /\ "snoozed" # "condition_unknown"
  BY DEF Against
<1> HIDE DEF t
<1>6. CASE snoozed > t.at
  <2>0. u = Put(t, "store", Outcome("suppress", "snoozed", snoozed), t.prior, t.seen)
    BY <1>4, <1>6, Assigned
  <2> HIDE DEF u
  <2>1. /\ Shape(u) /\ u.step = "store" /\ u.job = t.job /\ u.at = t.at
        /\ u.policy = t.policy /\ u.seen = t.seen
        /\ u.outcome = Outcome("suppress", "snoozed", snoozed)
    BY <2>0, PutHas
  <2>2. u.outcome.kind = "suppress" /\ u.outcome.reason = "snoozed"
    BY <2>1, OutcomeOf
  <2>3. TaskFits(u, now, jobs, cond, log, decisions)
    BY <1>1, <1>2, <1>5, <2>1, <2>2 DEF TaskFits, Steps, NotYet, Agrees, OutcomeFits
  <2> QED BY <1>3, <2>3, Moves DEF CheckSnooze
<1>7. CASE ~(snoozed > t.at)
  <2>0. u = Put(t, "recent", t.outcome, t.prior, t.seen)
    BY <1>4, <1>7, Assigned
  <2> HIDE DEF u
  <2>1. /\ Shape(u) /\ u.step = "recent" /\ u.job = t.job /\ u.at = t.at
        /\ u.policy = t.policy /\ u.seen = t.seen /\ u.outcome = t.outcome
    BY <2>0, PutHas
  <2>2. TaskFits(u, now, jobs, cond, log, decisions)
    BY <1>1, <1>2, <2>1 DEF TaskFits, Steps, NotYet
  <2> QED BY <1>3, <2>2, Moves DEF CheckSnooze
<1> QED BY <1>6, <1>7

\* What is sent was not preceded by a contact within the cooldown.
LEMMA SentAfterCooldown ==
    ASSUME NEW p \in PolicyType, NEW at \in Nat,
           \A j \in JobIds : decisions[j].kind = "send" => decisions[j].at \in Nat
    PROVE  /\ OutcomeFits(SendOrNot(p, at), at, p, decisions)
           /\ SendOrNot(p, at).reason \in {"cooldown_active", "merged_with_recent",
                                           "quiet_hours", "met"}
<1> DEFINE o == SendOrNot(p, at)
<1>1. \/ o.kind \in {"suppress", "aggregate", "defer"}
      \/ /\ o.kind = "send"
         /\ ~(Gated(p) /\ p.cooldown > 0 /\ Recent(at - p.cooldown))
  BY OutcomeOf DEF SendOrNot
<1>2. o.reason \in {"cooldown_active", "merged_with_recent", "quiet_hours", "met"}
  BY OutcomeOf DEF SendOrNot
<1>3. p.cooldown \in Nat
  BY DEF PolicyType
<1> HIDE DEF o
<1>4. o.kind # "none"
  BY <1>1
<1>5. ASSUME o.kind = "send", CoolsDown(p), NEW i \in JobIds, decisions[i].kind = "send"
      PROVE  decisions[i].at + p.cooldown < at
  <2>1. ~Recent(at - p.cooldown)
    BY <1>1, <1>5 DEF CoolsDown
  <2>2. ~(decisions[i].at >= at - p.cooldown)
    BY <2>1, <1>5 DEF Recent
  <2> QED BY <2>2, <1>3, <1>5
<1>6. OutcomeFits(o, at, p, decisions)
  BY <1>4, <1>5 DEF OutcomeFits
<1> QED BY <1>2, <1>6 DEF o

LEMMA CheckRecentIInv ==
    ASSUME OneAtATime, IInv, NEW w \in Threads, CheckRecent(w)
    PROVE  IInv'
<1> DEFINE t == task[w]
           o == SendOrNot(t.policy, t.at)
           u == [t EXCEPT !.outcome = o, !.step = "store"]
<1>1. t.step = "recent" /\ t # Idle
  BY DEF CheckRecent, Idle
<1>2. TaskFits(t, now, jobs, cond, log, decisions)
  BY <1>1, UnderWay
<1>3. task' = [task EXCEPT ![w] = u]
  BY DEF CheckRecent, IInv, TasksFit
<1>4. Shape(t) /\ t.policy \in PolicyType /\ t.at \in Nat
  BY <1>2, ContactAssumption DEF TaskFits
<1>5. \A j \in JobIds : decisions[j].kind = "send" => decisions[j].at \in Nat
  BY DEF IInv, DecisionsFit, DecisionFits
<1>6. /\ OutcomeFits(o, t.at, t.policy, decisions)
      /\ o.reason \in {"cooldown_active", "merged_with_recent", "quiet_hours", "met"}
  BY <1>4, <1>5, SentAfterCooldown
<1>7. o.reason \notin Against /\ o.reason # "condition_unknown"
  BY <1>6 DEF Against
<1> HIDE DEF t, o
<1>8a. u = Put(t, "store", o, t.prior, t.seen)
  BY <1>4, Assigned
<1>8. /\ Shape(u) /\ u.step = "store" /\ u.job = t.job /\ u.at = t.at
      /\ u.policy = t.policy /\ u.seen = t.seen /\ u.outcome = o
  BY <1>8a, PutHas
<1> HIDE DEF u
<1>9. TaskFits(u, now, jobs, cond, log, decisions)
  BY <1>1, <1>2, <1>6, <1>7, <1>8 DEF TaskFits, Steps, NotYet, Agrees
<1> QED BY <1>3, <1>9, Moves DEF CheckRecent

LEMMA ByModeOutcome ==
    ASSUME NEW p \in PolicyType, NEW verdict \in Verdicts, NEW at \in Nat, verdict # "failed"
    PROVE  LET o == ByMode(p, verdict, at)
           IN  /\ o.kind \in {"candidate", "defer", "suppress"}
               /\ o.reason = "condition_unknown" => o.eligible \in Nat
               /\ Gated(p) /\ verdict = "unmet" => o.kind = "suppress" /\ o.reason = "unmet"
<1>1. verdict \in {"met", "unmet", "unknown", "error"}
  BY ContactAssumption
<1>2. CASE ~Gated(p) \/ verdict = "met"
  <2>1. ByMode(p, verdict, at) = Outcome("candidate", verdict, at)
    BY <1>2 DEF ByMode
  <2> QED BY <1>1, <1>2, <2>1, OutcomeOf
<1>3. CASE Gated(p) /\ verdict = "unknown" /\ p.unknownRetry > 0
  <2>1. ByMode(p, verdict, at) = Outcome("defer", "condition_unknown", at + p.unknownRetry)
    BY <1>3 DEF ByMode
  <2>2. at + p.unknownRetry \in Nat
    BY DEF PolicyType
  <2> QED BY <1>3, <2>1, <2>2, OutcomeOf
<1>4. CASE /\ Gated(p) /\ verdict # "met"
           /\ ~(verdict = "unknown" /\ p.unknownRetry > 0)
  <2>1. ByMode(p, verdict, at) = Outcome("suppress", verdict, at)
    BY <1>4 DEF ByMode
  <2> QED BY <1>1, <1>4, <2>1, OutcomeOf
<1> QED BY <1>2, <1>3, <1>4

LEMMA BeginIInv ==
    ASSUME OneAtATime, IInv, NEW w \in Threads, NEW j \in DOMAIN jobs, NEW verdict \in Verdicts,
           Begin(w, j, verdict)
    PROVE  IInv'
<1> DEFINE p == policy[Revision]
           o == IF Eligible(j, verdict) THEN ByMode(p, verdict, now)
                ELSE Outcome("suppress", "not_eligible", now)
           gated == Eligible(j, verdict) /\ Gated(p) /\ verdict \in {"met", "unmet"}
           u == [step |-> IF gated THEN "read" ELSE After(o),
                 job |-> j, at |-> now, verdict |-> verdict, policy |-> p,
                 outcome |-> o, prior |-> NoCond, seen |-> 0]
<1>1. /\ task' = [task EXCEPT ![w] = u]
      /\ jobs' = [jobs EXCEPT ![j].state = "done"]
      /\ jobs[j].state \in {"open", "stale"}
      /\ UNCHANGED <<now, mandateVars, cond, decisions, records, log>>
  BY DEF Begin
<1>2. /\ jobs \in Seq(Job) /\ j \in 1 .. Len(jobs) /\ Len(jobs) \in Nat
      /\ now \in Nat /\ p \in Policies /\ p \in PolicyType
  BY ContactAssumption DEF IInv, WorldFits, Revision
<1>3. /\ jobs' \in Seq(Job) /\ Len(jobs') = Len(jobs) /\ jobs'[j].state = "done"
      /\ \A k \in 1 .. Len(jobs) : jobs'[k].revision = jobs[k].revision
      /\ DoneStays(jobs, jobs')
  <2>1. \A k \in 1 .. Len(jobs) : jobs[k] \in Job
    BY <1>2
  <2>2. \A k \in 1 .. Len(jobs) : jobs'[k] = IF k = j THEN [jobs[j] EXCEPT !.state = "done"]
                                             ELSE jobs[k]
    BY <1>1, <1>2
  <2>3. [jobs[j] EXCEPT !.state = "done"] \in Job
    BY <1>2, <2>1 DEF Job
  <2>4. jobs' \in Seq(Job) /\ Len(jobs') = Len(jobs)
    BY <1>1, <1>2, <2>3
  <2>5. /\ [jobs[j] EXCEPT !.state = "done"].state = "done"
        /\ [jobs[j] EXCEPT !.state = "done"].revision = jobs[j].revision
    BY <1>2, <2>1 DEF Job
  <2> QED BY <1>2, <2>2, <2>4, <2>5 DEF DoneStays
<1>4. WorldFits(now, snoozed, policy, jobs)'
  BY <1>1, <1>2, <1>3 DEF IInv, WorldFits, mandateVars
<1>5. DecisionsFit(decisions, records, now, jobs, log)'
  BY <1>1, <1>2, <1>3, DecisionsStay DEF IInv
<1>6. /\ o.kind \in {"candidate", "defer", "suppress"}
      /\ o.reason = "condition_unknown" => o.eligible \in Nat
      /\ gated /\ verdict = "unmet" => o.kind = "suppress" /\ o.reason = "unmet"
  <2>1. CASE Eligible(j, verdict)
    BY <1>2, <2>1, ByModeOutcome DEF Eligible
  <2>2. CASE ~Eligible(j, verdict)
    BY <2>2, OutcomeOf
  <2> QED BY <2>1, <2>2
<1>7. gated => verdict \in {"met", "unmet"}
  OBVIOUS
<1>8. decisions[j].kind = "none"
  <2>1. j \in JobIds
    BY <1>2, ContactAssumption DEF IInv, WorldFits, JobIds
  <2> QED BY <1>1, <2>1 DEF IInv, DecisionsFit, DecisionFits
<1>9. \A k \in JobIds : decisions[k].kind # "none" => decisions[k].at <= now
  BY DEF IInv, DecisionsFit, DecisionFits
<1>10. \A x \in 1 .. Len(log) : log[x].at <= now
  BY DEF IInv, LogFits
<1>11. Len(log) \in Nat
  BY DEF IInv, LogFits
<1> HIDE DEF p, o, gated
<1>12. /\ Shape(u) /\ u.step = (IF gated THEN "read" ELSE After(o))
       /\ u.job = j /\ u.at = now /\ u.verdict = verdict /\ u.policy = p
       /\ u.outcome = o /\ u.seen = 0
  BY DEF Shape
<1>13. u.step \in {"read", "snooze", "store"} /\ (u.step = "read" => gated)
  BY <1>12 DEF After
<1> HIDE DEF u
<1>14. TaskFits(u, now, jobs', cond, log, decisions)
  BY <1>2, <1>3, <1>6, <1>7, <1>8, <1>9, <1>10, <1>11, <1>12, <1>13
     DEF TaskFits, Steps, NotYet, Agrees, OutcomeFits
<1>15. TasksFit([task EXCEPT ![w] = u], now, jobs', cond, log, decisions)
  BY <1>14, OneFits DEF IInv, TasksFit
<1>16. TasksFit(task, now, jobs, cond, log, decisions)'
  BY <1>1, <1>15
<1>17. LogFits(now, cond, log)' /\ SentApart(decisions)'
  BY <1>1 DEF IInv
<1> QED BY <1>4, <1>5, <1>16, <1>17 DEF IInv

\* What was saved agrees with the history.
LEMMA SavedAgrees ==
    ASSUME NEW h \in Seq(Event), NEW e \in Event, NEW c, NEW p \in PolicyType, NEW old,
           Tells(c, h), InTime(h), \A x \in 1 .. Len(h) : h[x].at <= e.at,
           e.verdict = "unmet" => old.kind = "suppress" /\ old.reason = "unmet"
    PROVE  LET o == IF e.verdict = "met" THEN Gate(p, c, NextCond(c, e.verdict, e.at), e.at)
                    ELSE old
           IN  /\ o.reason \notin Against <=> Due(Append(h, e), p, Len(h) + 1)
               /\ o.kind = "candidate" => o.reason \notin Against
               /\ o.kind \in {"candidate", "defer", "suppress"}
               /\ o.reason # "condition_unknown"
<1>1. CASE e.verdict = "met"
  <2> DEFINE o == Gate(p, c, NextCond(c, "met", e.at), e.at)
  <2>1. o.reason \notin Against <=> Due(Append(h, e), p, Len(h) + 1)
    BY <1>1, GateIsDue
  <2>2. \/ o.kind = "defer" /\ o.reason = "sustain_pending"
        \/ o.kind = "suppress" /\ o.reason = "held_back"
        \/ o.kind = "candidate" /\ o.reason = "met"
    BY OutcomeOf DEF Gate
  <2> HIDE DEF o
  <2>3. /\ o.kind = "candidate" => o.reason \notin Against
        /\ o.kind \in {"candidate", "defer", "suppress"}
        /\ o.reason # "condition_unknown"
    BY <2>2 DEF Against
  <2> QED BY <1>1, <2>1, <2>3 DEF o
<1>2. CASE e.verdict = "unmet"
  <2>1. Append(h, e)[Len(h) + 1].verdict # "met"
    BY <1>2, Appended
  <2>2. ~Due(Append(h, e), p, Len(h) + 1)
    BY <2>1 DEF Due
  <2> QED BY <1>2, <2>2 DEF Against
<1> QED BY <1>1, <1>2 DEF Event

LEMMA SaveStateIInv ==
    ASSUME OneAtATime, IInv, NEW w \in Threads, SaveState(w)
    PROVE  IInv'
<1> DEFINE t == task[w]
           e == [verdict |-> t.verdict, at |-> t.at]
           next == NextCond(t.prior, t.verdict, t.at)
           o == IF t.verdict = "met" THEN Gate(t.policy, t.prior, next, t.at) ELSE t.outcome
           u == [t EXCEPT !.outcome = o, !.step = After(o), !.seen = Len(log) + 1]
           g == Append(log, e)
<1>1. t.step = "gate" /\ t # Idle
  BY DEF SaveState, Idle
<1>2. TaskFits(t, now, jobs, cond, log, decisions)
  BY <1>1, UnderWay
<1>3. /\ cond' = next /\ log' = g
      /\ UNCHANGED <<now, mandateVars, jobs, decisions, records>>
  BY DEF SaveState
<1>4. task' = [task EXCEPT ![w] = u]
  BY DEF SaveState, IInv, TasksFit
<1>5. /\ Shape(t) /\ t.prior = cond /\ t.at \in Nat /\ t.at <= now /\ t.policy \in Policies
      /\ t.verdict \in {"met", "unmet"} /\ decisions[t.job].kind = "none"
      /\ t.verdict = "unmet" => t.outcome.kind = "suppress" /\ t.outcome.reason = "unmet"
      /\ \A x \in 1 .. Len(log) : log[x].at <= t.at
  BY <1>1, <1>2 DEF TaskFits, NotYet
<1>6. e \in Event /\ e.verdict = t.verdict /\ e.at = t.at
  BY <1>5 DEF Event
<1>7. t.policy \in PolicyType
  BY <1>5, ContactAssumption
<1>8. log \in Seq(Event) /\ Tells(cond, log) /\ InTime(log)
  BY DEF IInv, LogFits
<1> HIDE DEF t, e
<1>9. /\ g \in Seq(Event) /\ Len(g) = Len(log) + 1 /\ Len(log) \in Nat
      /\ g[Len(log) + 1] = e /\ \A x \in 1 .. Len(log) : g[x] = log[x]
  BY <1>6, <1>8, Appended
<1>10. Tells(next, g) /\ InTime(g)
  BY <1>5, <1>6, <1>8, TellsOn, StaysInTime
<1>11. /\ o.reason \notin Against <=> Due(g, t.policy, Len(log) + 1)
       /\ o.kind = "candidate" => o.reason \notin Against
       /\ o.kind \in {"candidate", "defer", "suppress"}
       /\ o.reason # "condition_unknown"
  BY <1>5, <1>6, <1>7, <1>8, SavedAgrees
<1>12. \A p \in PolicyType, i \in 1 .. Len(log) : Due(g, p, i) <=> Due(log, p, i)
  BY <1>6, <1>8, DueStays
<1> HIDE DEF g, next, o
<1>13. \A x \in 1 .. Len(g) : g[x].at <= t.at
  BY <1>5, <1>6, <1>9
<1>14. LogFits(now, cond, log)'
  <2>1. now \in Nat
    BY DEF IInv, WorldFits
  <2>2. \A x \in 1 .. Len(g) : g[x].at \in Nat
    BY <1>10 DEF InTime
  <2>3. \A x \in 1 .. Len(g) : g[x].at <= now
    BY <1>5, <1>13, <2>1, <2>2
  <2> QED BY <1>3, <1>9, <1>10, <2>3 DEF LogFits
<1>15. DecisionsFit(decisions, records, now, jobs, log)'
  <2>1. ASSUME NEW j \in JobIds
        PROVE  DecisionFits(j, decisions[j], records[j], now, jobs, g)
    <3>1. DecisionFits(j, decisions[j], records[j], now, jobs, log)
      BY DEF IInv, DecisionsFit
    <3>2. ASSUME decisions[j].kind # "none"
          PROVE  /\ decisions[j].seen \in 0 .. Len(g)
                 /\ Agrees(decisions[j].reason, g, decisions[j].policy, decisions[j].seen)
      <4>1. /\ decisions[j].seen \in 0 .. Len(log) /\ decisions[j].policy \in PolicyType
            /\ Agrees(decisions[j].reason, log, decisions[j].policy, decisions[j].seen)
        BY <3>1, <3>2, ContactAssumption DEF DecisionFits
      <4> QED BY <4>1, <1>9, <1>12 DEF Agrees
    <3> QED BY <3>1, <3>2 DEF DecisionFits
  <2> QED BY <1>3, <2>1 DEF IInv, DecisionsFit
<1>16. u = Put(t, After(o), o, t.prior, Len(log) + 1)
  <2>1. u = Saved(t, After(o), o, Len(log) + 1)
    BY DEF Saved
  <2> HIDE DEF u
  <2> QED BY <1>5, <2>1, SavedPut
<1> HIDE DEF u
<1>17. /\ Shape(u) /\ u.step = After(o) /\ u.job = t.job /\ u.at = t.at
       /\ u.policy = t.policy /\ u.outcome = o /\ u.seen = Len(log) + 1
  BY <1>16, PutHas
<1>18. /\ u.step \in {"snooze", "store"}
       /\ u.step = "snooze" => o.kind = "candidate"
  BY <1>17 DEF After
<1>19. TaskFits(u, now, jobs, next, g, decisions)
  BY <1>2, <1>5, <1>9, <1>11, <1>13, <1>17, <1>18
     DEF TaskFits, Steps, NotYet, Agrees, OutcomeFits
<1>20. TasksFit([task EXCEPT ![w] = u], now, jobs, next, g, decisions)
  BY <1>19, OneFits DEF IInv, TasksFit
<1>21. TasksFit(task, now, jobs, cond, log, decisions)'
  BY <1>3, <1>4, <1>20
<1>22. WorldFits(now, snoozed, policy, jobs)' /\ SentApart(decisions)'
  BY <1>3 DEF IInv, mandateVars
<1> QED BY <1>14, <1>15, <1>21, <1>22 DEF IInv

LEMMA StoreIInv ==
    ASSUME OneAtATime, IInv, NEW w \in Threads, Store(w)
    PROVE  IInv'
<1> DEFINE t == task[w]
           d == [kind |-> t.outcome.kind, reason |-> t.outcome.reason,
                 eligible |-> t.outcome.eligible, at |-> t.at,
                 policy |-> t.policy, seen |-> t.seen]
           u == [t EXCEPT !.step = Follow(t.outcome)]
           ds == [decisions EXCEPT ![t.job] = d]
<1>1. t.step = "store" /\ t # Idle
  BY DEF Store, Idle
<1>2. TaskFits(t, now, jobs, cond, log, decisions)
  BY <1>1, UnderWay
<1>3. /\ decisions' = ds
      /\ task' = [task EXCEPT ![w] = IF Follow(t.outcome) = "idle" THEN Idle ELSE u]
      /\ UNCHANGED <<now, mandateVars, jobs, cond, records, log>>
  BY DEF Store
<1>4. /\ d.kind = t.outcome.kind /\ d.reason = t.outcome.reason /\ d.at = t.at
      /\ d.policy = t.policy /\ d.seen = t.seen
  OBVIOUS
<1>5. /\ Shape(t) /\ t.at \in Nat /\ t.at <= now /\ t.policy \in Policies
      /\ t.job \in 1 .. Len(jobs) /\ jobs[t.job].state = "done"
      /\ t.seen \in 0 .. Len(log) /\ Agrees(t.outcome.reason, log, t.policy, t.seen)
      /\ decisions[t.job].kind = "none"
      /\ OutcomeFits(t.outcome, t.at, t.policy, decisions)
  BY <1>1, <1>2 DEF TaskFits, NotYet
<1>6. t.job \in JobIds
  BY <1>5, ContactAssumption DEF IInv, WorldFits, JobIds
<1>7. /\ decisions = [j \in JobIds |-> decisions[j]] /\ records = [j \in JobIds |-> records[j]]
      /\ \A j \in JobIds : DecisionFits(j, decisions[j], records[j], now, jobs, log)
  BY DEF IInv, DecisionsFit
<1>8. /\ ds = [j \in JobIds |-> ds[j]]
      /\ ds[t.job] = d /\ \A j \in JobIds \ {t.job} : ds[j] = decisions[j]
  BY <1>6, <1>7
<1>9. TaskFits(u, now, jobs, cond, log, ds) \/ Follow(t.outcome) = "idle"
  <2> SUFFICES ASSUME Follow(t.outcome) # "idle" PROVE TaskFits(u, now, jobs, cond, log, ds)
    OBVIOUS
  <2>1. u = Put(t, Follow(t.outcome), t.outcome, t.prior, t.seen)
    BY <1>5, Assigned
  <2> HIDE DEF t, u, ds, d
  <2>2. /\ Shape(u) /\ u.step = Follow(t.outcome) /\ u.job = t.job /\ u.at = t.at
        /\ u.policy = t.policy /\ u.outcome = t.outcome /\ u.seen = t.seen
    BY <2>1, PutHas
  <2>3. \/ u.step = "dispatch" /\ t.outcome.kind = "send"
        \/ u.step = "retry" /\ t.outcome.reason = "condition_unknown"
    BY <2>2 DEF Follow
  <2>4. \A j \in JobIds : ds[j].kind # "none" => ds[j].at <= t.at
    <3>1. ds[t.job].at <= t.at
      BY <1>4, <1>5, <1>8
    <3>2. \A j \in JobIds : decisions[j].kind # "none" => decisions[j].at <= t.at
      BY <1>2 DEF TaskFits
    <3> QED BY <3>1, <3>2, <1>8
  <2> QED BY <1>2, <1>4, <1>8, <2>2, <2>3, <2>4 DEF TaskFits, Steps, NotYet
<1> HIDE DEF d, t, u, ds
<1>10. DecisionsFit(ds, records, now, jobs, log)
  <2>1. records[t.job] = "none"
    BY <1>5, <1>6, <1>7 DEF DecisionFits
  <2>2. DecisionFits(t.job, d, records[t.job], now, jobs, log)
    BY <1>4, <1>5, <2>1 DEF DecisionFits
  <2>3. \A j \in JobIds : DecisionFits(j, ds[j], records[j], now, jobs, log)
    BY <1>7, <1>8, <2>2
  <2> QED BY <1>7, <1>8, <2>3 DEF DecisionsFit
<1>11. SentApart(ds)
  <2> SUFFICES ASSUME NEW i \in JobIds, NEW j \in JobIds,
                      i # j, ds[i].kind = "send", ds[j].kind = "send",
                      CoolsDown(ds[j].policy),
                      \/ ds[i].at < ds[j].at
                      \/ ds[i].at = ds[j].at /\ CoolsDown(ds[i].policy)
               PROVE  ds[i].at + ds[j].policy.cooldown < ds[j].at
    BY DEF SentApart
  <2>1. CASE j = t.job
    BY <2>1, <1>4, <1>5, <1>8 DEF OutcomeFits
  <2>2. CASE i = t.job
    <3>1. ds[j] = decisions[j] /\ decisions[j].kind = "send" /\ ds[i].at = t.at
      BY <2>2, <1>4, <1>8
    <3>2. decisions[j].at <= t.at /\ decisions[j].at \in Nat
      BY <1>2, <1>7, <3>1 DEF TaskFits, DecisionFits
    <3>3. decisions[j].at = t.at /\ CoolsDown(t.policy) /\ t.outcome.kind = "send"
      BY <2>2, <3>1, <3>2, <1>4, <1>5, <1>8
    <3>4. decisions[j].at + t.policy.cooldown < t.at
      BY <3>1, <3>3, <1>5 DEF OutcomeFits
    <3>5. t.policy.cooldown \in Nat
      BY <1>5, ContactAssumption DEF PolicyType
    <3> QED BY <3>2, <3>3, <3>4, <3>5
  <2>3. CASE i # t.job /\ j # t.job
    BY <2>3, <1>8 DEF IInv, SentApart
  <2> QED BY <2>1, <2>2, <2>3
<1>12. TasksFit(task, now, jobs, cond, log, decisions)'
  <2>1. TasksFit([task EXCEPT ![w] = Idle], now, jobs, cond, log, ds)
    BY OneIsDone DEF IInv, TasksFit
  <2>2. Follow(t.outcome) # "idle" =>
          TasksFit([task EXCEPT ![w] = u], now, jobs, cond, log, ds)
    BY <1>9, OneFits DEF IInv, TasksFit
  <2> QED BY <1>3, <2>1, <2>2
<1>13. WorldFits(now, snoozed, policy, jobs)' /\ LogFits(now, cond, log)'
  BY <1>3 DEF IInv, mandateVars
<1>14. DecisionsFit(decisions, records, now, jobs, log)' /\ SentApart(decisions)'
  BY <1>3, <1>10, <1>11
<1> QED BY <1>12, <1>13, <1>14 DEF IInv

LEMMA ScheduleRetryIInv ==
    ASSUME OneAtATime, IInv, NEW w \in Threads, ScheduleRetry(w)
    PROVE  IInv'
<1> DEFINE t == task[w]
           index == jobs[t.job].retry + 1
           job == NewJob(jobs[t.job].revision, index, t.outcome.eligible)
<1>1. t.step = "retry" /\ t # Idle
  BY DEF ScheduleRetry, Idle
<1>2. TaskFits(t, now, jobs, cond, log, decisions)
  BY <1>1, UnderWay
<1>3. /\ task' = [task EXCEPT ![w] = Idle]
      /\ UNCHANGED <<now, mandateVars, cond, decisions, records, log>>
      /\ \/ UNCHANGED jobs
         \/ Len(jobs) < MaxJobs /\ jobs' = Append(jobs, job)
  BY DEF ScheduleRetry
<1>4. /\ jobs \in Seq(Job) /\ t.job \in 1 .. Len(jobs) /\ Len(jobs) \in Nat
      /\ t.outcome.eligible \in Nat /\ now \in Nat
  BY <1>1, <1>2 DEF IInv, WorldFits, TaskFits
<1>5. job \in Job /\ job.revision = jobs[t.job].revision
  <2>1. jobs[t.job] \in Job
    BY <1>4
  <2>2. /\ jobs[t.job].revision \in Nat /\ index \in Nat
    BY <2>1 DEF Job
  <2>3. job = [revision |-> jobs[t.job].revision, retry |-> index,
               due |-> t.outcome.eligible, state |-> "open"]
    BY DEF NewJob
  <2> HIDE DEF index, job
  <2> QED BY <1>4, <2>2, <2>3 DEF Job
<1> HIDE DEF t, job
<1>6. WorldFits(now, snoozed, policy, jobs)' /\ DoneStays(jobs, jobs')
  <2>1. CASE UNCHANGED jobs
    BY <2>1, <1>3, <1>4 DEF IInv, WorldFits, mandateVars, DoneStays
  <2>2. CASE Len(jobs) < MaxJobs /\ jobs' = Append(jobs, job)
    <3>1. /\ jobs' \in Seq(Job) /\ Len(jobs') = Len(jobs) + 1
          /\ \A j \in 1 .. Len(jobs) : jobs'[j] = jobs[j]
          /\ jobs'[Len(jobs) + 1] = job
      BY <2>2, <1>4, <1>5
    <3> QED BY <2>2, <3>1, <1>3, <1>4, <1>5, ContactAssumption
            DEF IInv, WorldFits, mandateVars, DoneStays
  <2> QED BY <1>3, <2>1, <2>2
<1>7. DecisionsFit(decisions, records, now, jobs, log)'
  BY <1>3, <1>4, <1>6, DecisionsStay DEF IInv
<1>8. TasksFit([task EXCEPT ![w] = Idle], now, jobs', cond, log, decisions)
  BY OneIsDone DEF IInv, TasksFit
<1>9. TasksFit(task, now, jobs, cond, log, decisions)'
  BY <1>3, <1>8
<1> QED BY <1>3, <1>6, <1>7, <1>9 DEF IInv

LEMMA DispatchIInv ==
    ASSUME OneAtATime, IInv, NEW w \in Threads, Dispatch(w)
    PROVE  IInv'
<1> DEFINE t == task[w]
<1>1. t.step = "dispatch" /\ t # Idle
  BY DEF Dispatch, Idle
<1>2. decisions[t.job].kind = "send"
  BY <1>1, UnderWay DEF TaskFits
<1>3. /\ task' = [task EXCEPT ![w] = Idle]
      /\ \E r \in {"sent", "failed"} : records' = [records EXCEPT ![t.job] = r]
      /\ UNCHANGED <<now, mandateVars, jobs, cond, decisions, log>>
  BY DEF Dispatch
<1> HIDE DEF t
<1>4. /\ records' = [j \in JobIds |-> records'[j]]
      /\ \A j \in JobIds : records'[j] # records[j] => j = t.job
  BY <1>3 DEF IInv, DecisionsFit
<1>5. DecisionsFit(decisions, records', now, jobs, log)
  <2>1. \A j \in JobIds : DecisionFits(j, decisions[j], records'[j], now, jobs, log)
    BY <1>2, <1>4 DEF IInv, DecisionsFit, DecisionFits
  <2> QED BY <1>4, <2>1 DEF IInv, DecisionsFit
<1>6. TasksFit([task EXCEPT ![w] = Idle], now, jobs, cond, log, decisions)
  BY OneIsDone DEF IInv, TasksFit
<1>7. /\ DecisionsFit(decisions, records, now, jobs, log)'
      /\ TasksFit(task, now, jobs, cond, log, decisions)'
  BY <1>3, <1>5, <1>6
<1> QED BY <1>3, <1>7 DEF IInv, mandateVars

LEMMA AbortIInv ==
    ASSUME OneAtATime, IInv, NEW w \in Threads, Abort(w)
    PROVE  IInv'
<1>1. TasksFit([task EXCEPT ![w] = Idle], now, jobs, cond, log, decisions)
  BY OneIsDone DEF IInv, TasksFit
<1>2. TasksFit(task, now, jobs, cond, log, decisions)'
  BY <1>1 DEF Abort
<1> QED BY <1>2 DEF Abort, IInv, mandateVars

-----------------------------------------------------------------------------
LEMMA InitIInv == Init => IInv
<1> SUFFICES ASSUME Init PROVE IInv
  OBVIOUS
<1>1. WorldFits(now, snoozed, policy, jobs)
  BY ContactAssumption DEF Init, WorldFits
<1>2. LogFits(now, cond, log)
  BY DEF Init, LogFits, InTime, Tells, EverMet, MetOnceMore, NoCond
<1>3. NoDecision.kind = "none"
  BY DEF NoDecision
<1>4. DecisionsFit(decisions, records, now, jobs, log)
  BY <1>3 DEF Init, DecisionsFit, DecisionFits
<1>5. SentApart(decisions)
  BY <1>3 DEF Init, SentApart
<1>6. TasksFit(task, now, jobs, cond, log, decisions)
  BY DEF Init, TasksFit
<1> QED BY <1>1, <1>2, <1>4, <1>5, <1>6 DEF IInv

LEMMA NextIInv ==
    ASSUME OneAtATime, IInv, [Next]_vars
    PROVE  IInv'
<1>1. CASE UNCHANGED vars
  BY <1>1 DEF vars, mandateVars, IInv
<1>2. CASE \/ Tick \/ Pause \/ Resume \/ Revise \/ CreateJob
           \/ \E until \in 1 .. MaxTime : Snooze(until)
  BY <1>2, WorldIInv
<1>3. CASE \E w \in Threads : Evaluate(w) \/ Abort(w)
  BY <1>3, BeginIInv, ReadStateIInv, SaveStateIInv, CheckSnoozeIInv, CheckRecentIInv,
     StoreIInv, ScheduleRetryIInv, DispatchIInv, AbortIInv DEF Evaluate
<1> QED BY <1>1, <1>2, <1>3 DEF Next

LEMMA IInvAlways ==
    ASSUME OneAtATime
    PROVE  Spec => []IInv
<1>1. IInv /\ [Next]_vars => IInv'
  BY NextIInv
<1> QED BY <1>1, InitIInv, PTL DEF Spec

-----------------------------------------------------------------------------
LEMMA IInvTypes == IInv => ContactTypeOK
<1> SUFFICES ASSUME IInv PROVE ContactTypeOK
  OBVIOUS
<1>1. cond.episodes \in 0 .. Len(log)
  BY DEF IInv, LogFits, Tells
<1>2. cond.lastMet \in -1 .. now
  <2>1. now \in Nat /\ Tells(cond, log) /\ InTime(log)
        /\ \A x \in 1 .. Len(log) : log[x].at <= now
    BY DEF IInv, LogFits, WorldFits
  <2>2. CASE EverMet(log)
    BY <2>1, <2>2 DEF Tells, InTime
  <2>3. CASE ~EverMet(log)
    BY <2>1, <2>3 DEF Tells
  <2> QED BY <2>2, <2>3
<1>3. /\ DOMAIN jobs = 1 .. Len(jobs) /\ DOMAIN policy = 1 .. Len(policy)
      /\ \A j \in 1 .. Len(jobs) : jobs[j] \in Job
  BY DEF IInv, WorldFits
<1>4. \A j \in DOMAIN jobs : /\ jobs[j].state \in {"open", "stale", "done"}
                             /\ jobs[j].revision \in DOMAIN policy
  BY <1>3 DEF IInv, WorldFits, Job
<1> QED BY <1>1, <1>2, <1>4 DEF ContactTypeOK, IInv, WorldFits, DecisionsFit, DecisionFits

\* The condition state decides as the whole history would (GateAgreesWithHistory):
\* whatever policies are revised into each other and however long the history
\* grows, _apply_state_gate's one row loses nothing notify_on, sustain and
\* re-entry ask for, as long as evaluations do not overlap.
THEOREM OneRowStandsForHistory ==
    ASSUME OneAtATime
    PROVE  Spec => []GateAgreesWithHistory
<1>1. IInv => GateAgreesWithHistory
  BY DEF IInv, DecisionsFit, DecisionFits, Agrees, Against, GateAgreesWithHistory
<1> QED BY <1>1, IInvAlways, PTL

\* No contact is sent within the cooldown of its policy (CooldownKept), across
\* revisions, aborts and merges, as long as evaluations do not overlap.
THEOREM CooldownIsKept ==
    ASSUME OneAtATime
    PROVE  Spec => []CooldownKept
<1>1. IInv => CooldownKept
  BY IInvTypes DEF IInv, SentApart, CooldownKept
<1> QED BY <1>1, IInvAlways, PTL

-----------------------------------------------------------------------------
(* One start at a time: InstanceLock *)

\* Processes start one after the other; any may crash, and any pid come back.
OneStartAtATime == IsFiniteSet(Pids) /\ Concurrent = 1

OneAcquires ==
    \A p, q \in Pids : proc[p] \in Acquiring /\ proc[q] \in Acquiring => p = q

WriterOwns ==
    \A p \in Pids : proc[p] = "write" => file = [by |-> p, written |-> FALSE]

OwnerIsNamed ==
    \A p \in Pids : proc[p] \in {"holding", "releasing"}
                      => file = [by |-> p, written |-> TRUE]

UnlinkIsSafe ==
    \A p, q \in Pids : proc[p] = "unlink" => proc[q] \notin {"holding", "releasing"}

\* Whoever is still trying has a round left.
RoundLeft == \A p \in Pids : proc[p] \in Acquiring => tries[p] < MaxTries

LockInv == TypeOK /\ RoundLeft /\ OneAcquires /\ WriterOwns /\ OwnerIsNamed /\ UnlinkIsSafe

-----------------------------------------------------------------------------
LEMMA InitLockInv == LockInit => LockInv
  BY LockAssumption DEF LockInit, LockInv, TypeOK, RoundLeft, OneAcquires, WriterOwns,
     OwnerIsNamed, UnlinkIsSafe, States, Acquiring, MaxTries

\* A start finds nobody in acquire.
LEMMA StartsAlone ==
    ASSUME OneStartAtATime, NEW p \in Pids, Start(p)
    PROVE  \A q \in Pids : proc[q] \notin Acquiring
<1> DEFINE S == {q \in Pids : proc[q] \in Acquiring}
<1>1. IsFiniteSet(S)
  BY FS_Subset, S \subseteq Pids DEF OneStartAtATime
<1>2. Cardinality(S) < 1
  BY DEF OneStartAtATime, Start
<1>3. Cardinality(S) \in Nat
  BY <1>1, FS_CardinalityType
<1>4. Cardinality(S) = 0
  BY <1>2, <1>3
<1>5. S = {}
  BY <1>1, <1>4, FS_EmptySet
<1> QED BY <1>5

LEMMA NextLockInv ==
    ASSUME OneStartAtATime, LockInv, [LockNext]_lockVars
    PROVE  LockInv'
<1> USE DEF LockInv, TypeOK, RoundLeft, OneAcquires, WriterOwns, OwnerIsNamed, UnlinkIsSafe,
            States, Acquiring, MaxTries, NoFile, Move
<1>1. ASSUME NEW p \in Pids, Start(p) PROVE LockInv'
  <2>1. \A q \in Pids : proc[q] \notin Acquiring
    BY <1>1, StartsAlone
  <2>2. proc' = [proc EXCEPT ![p] = "open"] /\ tries' = [tries EXCEPT ![p] = 0]
        /\ UNCHANGED <<file, crashes>>
    BY <1>1 DEF Start
  <2> QED BY <2>1, <2>2
<1>2. ASSUME NEW p \in Pids, Open(p) PROVE LockInv'
  <2>1. CASE file = NoFile /\ file' = [by |-> p, written |-> FALSE] /\ Move(p, "write")
    <3>1. \A q \in Pids : proc[q] \notin {"holding", "releasing"}
      BY <2>1
    <3>2. \A q \in Pids : q # p => proc[q] \notin Acquiring
      BY <1>2 DEF Open
    <3> QED BY <1>2, <2>1, <3>1, <3>2 DEF Open
  <2>2. CASE file # NoFile /\ Move(p, "read") /\ UNCHANGED file
    BY <1>2, <2>2 DEF Open
  <2> QED BY <1>2, <2>1, <2>2 DEF Open
<1>3. ASSUME NEW p \in Pids, Read(p) PROVE LockInv'
  BY <1>3 DEF Read, Alive
<1>4. ASSUME NEW p \in Pids, Unlink(p) PROVE LockInv'
  <2>1. /\ proc[p] = "unlink" /\ file' = NoFile /\ crashes' = crashes
        /\ tries' = [tries EXCEPT ![p] = tries[p] + 1]
    BY <1>4 DEF Unlink
  <2>2. PICK to \in {"open", "dead"} :
          proc' = [proc EXCEPT ![p] = to] /\ (to = "open" => tries[p] + 1 < 2)
    BY <1>4 DEF Unlink, Again
  <2>3. \A q \in Pids : q # p => proc[q] \notin Acquiring
    BY <2>1
  <2>4. \A q \in Pids : proc[q] \notin {"holding", "releasing"}
    BY <2>1
  <2>5. tries[p] + 1 \in 0 .. 2
    BY <1>4 DEF Unlink
  <2>6. TypeOK'
    BY <2>1, <2>2, <2>5
  <2>7. \A q \in Pids : proc'[q] \in {"open", "dead"} /\ (proc'[q] = "open" => q = p)
    BY <2>1, <2>2, <2>3, <2>4
  <2>8. RoundLeft'
    BY <1>4, <2>1, <2>2, <2>3 DEF Unlink
  <2> QED BY <2>6, <2>7, <2>8
<1>5. ASSUME NEW p \in Pids, Write(p) PROVE LockInv'
  <2>1. \A q \in Pids : q # p => proc[q] \notin Acquiring
    BY <1>5 DEF Write
  <2>2. file = [by |-> p, written |-> FALSE]
    BY <1>5 DEF Write
  <2>3. \A q \in Pids : proc[q] \notin {"holding", "releasing"}
    BY <2>2
  <2> QED BY <1>5, <2>1, <2>2, <2>3 DEF Write
<1>6. ASSUME NEW p \in Pids, ReleaseRead(p) PROVE LockInv'
  BY <1>6 DEF ReleaseRead
<1>7. ASSUME NEW p \in Pids, ReleaseUnlink(p) PROVE LockInv'
  BY <1>7 DEF ReleaseUnlink
<1>8. ASSUME NEW p \in Pids, Crash(p) PROVE LockInv'
  BY <1>8, LockAssumption DEF Crash
<1>9. CASE UNCHANGED lockVars
  BY <1>9 DEF lockVars
<1> QED BY <1>1, <1>2, <1>3, <1>4, <1>5, <1>6, <1>7, <1>8, <1>9 DEF LockNext, Acquire

LEMMA LockInvAlways == ASSUME OneStartAtATime PROVE LockSpec => []LockInv
<1>1. LockInv /\ [LockNext]_lockVars => LockInv'
  BY NextLockInv
<1> QED BY InitLockInv, <1>1, PTL DEF LockSpec

\* "Only one instance may write a business store.": when processes start one
\* at a time, at most one of them holds the lock.
THEOREM SerialStartsExclude ==
    ASSUME OneStartAtATime
    PROVE  LockSpec => [](TypeOK /\ AtMostOneHolder)
<1>1. LockInv => TypeOK /\ AtMostOneHolder
  BY DEF LockInv, OwnerIsNamed, AtMostOneHolder
<1> QED BY <1>1, LockInvAlways, PTL

\* ... and the lock file names the one that holds it, so that the next to
\* start finds it alive.
THEOREM TheFileNamesTheHolder ==
    ASSUME OneStartAtATime
    PROVE  LockSpec => []HolderIsNamed
<1>1. LockInv => HolderIsNamed
  BY DEF LockInv, OwnerIsNamed, HolderIsNamed
<1> QED BY <1>1, LockInvAlways, PTL
=============================================================================
