--------------------------- MODULE HaAvailability ---------------------------
(***************************************************************************)
(* ContinuousAvailabilityMonitor of ha_availability.py: a sampler thread   *)
(* probes a service while the proof stops a zone, marks the failure and    *)
(* later asks for a summary.  Time is counted in ticks.  A sample carries  *)
(* the time its probe began; what it reports is what one instant of the    *)
(* probe saw, and a probe ends by its timeout.                             *)
(***************************************************************************)
EXTENDS Naturals, Sequences, FiniteSetsExt

CONSTANTS Interval,     \* CONTINUOUS_AVAILABILITY_INTERVAL_SECONDS
          ProbeLimit,   \* timeout of a probe
          MaxTicks       \* bound: ticks

ASSUME AvailabilityAssumption ==
    Interval \in Nat \ {0} /\ ProbeLimit \in Nat \ {0} /\ MaxTicks \in Nat

VARIABLES now,        \* ticks since the monitor was started
          truth,      \* ghost: whether the service was up, per tick up to now
          samples,    \* samples so far
          probe,      \* the probe in flight: its start and what it could see
          nextDue,    \* when the next sample is due
          failedAt,   \* time of mark_failure, or Unmarked
          monitor,    \* "running", "stopping" or "stopped"; when it was told to stop
          summary     \* what stop returned, or NoSummary

availabilityVars == <<now, truth, samples, probe, nextDue, failedAt, monitor, summary>>

NoProbe == [on |-> FALSE, start |-> 0, seen |-> {}]
Unmarked == MaxTicks + 1
NoSummary == [status |-> "none"]

AvailabilityInit ==
    /\ now = 0 /\ truth = [t \in 0..0 |-> TRUE] /\ samples = <<>> /\ probe = NoProbe
    /\ nextDue = 0 /\ failedAt = Unmarked /\ monitor = [at |-> "running", stop |-> Unmarked]
    /\ summary = NoSummary

\* The sampler is prompt: a due sample begins and a probe ends within the tick.
PassTime ==
    /\ now < MaxTicks /\ monitor.at # "stopped"
    /\ probe.on => now < probe.start + ProbeLimit
    /\ monitor.at = "running" /\ ~probe.on => now < nextDue
    /\ now' = now + 1
    /\ \E up \in BOOLEAN :
         /\ truth' = [t \in 0..(now + 1) |-> IF t = now + 1 THEN up ELSE truth[t]]
         /\ probe' = IF probe.on THEN [probe EXCEPT !.seen = @ \cup {up}] ELSE probe
    /\ UNCHANGED <<samples, nextDue, failedAt, monitor, summary>>

\* _run: the time is taken, then the paths are probed at once.
BeginSample ==
    /\ monitor.at = "running" /\ ~probe.on /\ nextDue <= now
    /\ probe' = [on |-> TRUE, start |-> now, seen |-> {truth[now]}]
    /\ UNCHANGED <<now, truth, samples, nextDue, failedAt, monitor, summary>>

\* A probe answers from some moment of its flight; a timeout is no answer.
Observed(p) == p.seen

\* The next sample is due an interval after this one was, at once when it took longer.
DueTwice(due) == due + 2 * Interval
Due(due) == due + Interval
EndSample ==
    /\ probe.on
    /\ \E available \in Observed(probe) :
         samples' = Append(samples, [elapsed |-> probe.start, available |-> available])
    /\ probe' = NoProbe /\ nextDue' = Due(nextDue)
    /\ UNCHANGED <<now, truth, failedAt, monitor, summary>>

MarkFailure ==
    /\ monitor.at = "running" /\ failedAt = Unmarked
    /\ failedAt' = now
    /\ UNCHANGED <<now, truth, samples, probe, nextDue, monitor, summary>>

StopMonitor ==
    /\ monitor.at = "running" /\ monitor' = [at |-> "stopping", stop |-> now]
    /\ UNCHANGED <<now, truth, samples, probe, nextDue, failedAt, summary>>

(***************************************************************************)
(* The summaries                                                           *)
(***************************************************************************)

\* summarize_continuous_availability: one pass over the samples that adds up
\* the outages, and the spacings beyond the interval.
Larger(a, b) == IF a >= b THEN a ELSE b
NoOutage == MaxTicks + 2
AddOutage(acc, to) ==
    LET d == IF to >= acc.since THEN to - acc.since ELSE 0
    IN [total |-> acc.total + d, longest |-> Larger(acc.longest, d), since |-> NoOutage]
SeeSample(acc, s) ==
    IF s.available THEN IF acc.since # NoOutage THEN AddOutage(acc, s.elapsed) ELSE acc
    ELSE IF acc.since = NoOutage THEN [acc EXCEPT !.since = s.elapsed] ELSE acc
Pass(ss) ==
    LET pass[i \in 0..Len(ss)] ==
            IF i = 0 THEN [total |-> 0, longest |-> 0, since |-> NoOutage] ELSE SeeSample(pass[i - 1], ss[i])
    IN pass
Outage(ss, window) ==
    LET acc == Pass(ss)[Len(ss)] IN IF acc.since # NoOutage THEN AddOutage(acc, window) ELSE acc

SumOf(f, n) == LET sum[i \in 0..n] == IF i = 0 THEN 0 ELSE sum[i - 1] + f[i] IN sum
Gap(ss) ==
    SumOf([i \in 1..Len(ss) |-> IF i > 1 /\ ss[i].elapsed > ss[i - 1].elapsed + Interval
                                THEN ss[i].elapsed - ss[i - 1].elapsed - Interval ELSE 0], Len(ss))[Len(ss)]

\* summarize_failover_recovery: samples begun at or after the mark; the first
\* success after the first failure.
Recovery(ss, mark) ==
    LET post == {i \in 1..Len(ss) : ss[i].elapsed >= mark}
        failed == {i \in post : ~ss[i].available}
        first == Min(failed)
        back == {i \in post : i > first /\ ss[i].available}
    IN IF post = {} THEN [status |-> "error"]
       ELSE IF failed = {} THEN [status |-> "quiet", rto |-> 0]
       ELSE IF back = {} THEN [status |-> "error"]
       ELSE [status |-> "outage", rto |-> ss[Min(back)].elapsed - mark, first |-> ss[first].elapsed]

\* stop, after the thread has ended.
Summarize ==
    /\ monitor.at = "stopping" /\ ~probe.on
    /\ monitor' = [monitor EXCEPT !.at = "stopped"]
    /\ summary' = IF samples = <<>> \/ (failedAt # Unmarked /\ Recovery(samples, failedAt).status = "error")
                  THEN [status |-> "error"]
                  ELSE [status |-> "report", outage |-> Outage(samples, now), gap |-> Gap(samples),
                        recovery |-> IF failedAt = Unmarked THEN [status |-> "none"]
                                     ELSE Recovery(samples, failedAt)]
    /\ UNCHANGED <<now, truth, samples, probe, nextDue, failedAt>>

AvailabilityNext ==
    PassTime \/ BeginSample \/ EndSample \/ MarkFailure \/ StopMonitor \/ Summarize

AvailabilitySpec == AvailabilityInit /\ [][AvailabilityNext]_availabilityVars

(***************************************************************************)
(* Property                                                                *)
(***************************************************************************)

Was(up, a, b) == \E t \in a..b : t \in DOMAIN truth /\ truth[t] = up
Always(up, a, b) == \A t \in a..b : truth[t] = up

\* What a report may be relied on for.  An outage after the mark is in it when
\* it lasts an interval (or a probe timeout, if that is longer) and a probe
\* timeout.  A recovery time brackets a moment at which the service was really
\* up, no earlier than the report says and at most a probe timeout later, after
\* a moment at which it was really down; and the measured outage is the time
\* from every failed sample to the sample after it (_run,
\* summarize_continuous_availability, summarize_failover_recovery).
ReportIsHonest ==
    summary.status = "report" =>
        LET r == summary.recovery
            long == Larger(Interval, ProbeLimit) + ProbeLimit - 1
            until(i) == IF i = Len(samples) THEN now ELSE samples[i + 1].elapsed
        IN /\ r.status = "outage" =>
                /\ Was(TRUE, failedAt + r.rto, failedAt + r.rto + ProbeLimit)
                /\ Was(FALSE, r.first, r.first + ProbeLimit)
           /\ \A a \in 0..now :
                failedAt <= a /\ a + long <= monitor.stop /\ Always(FALSE, a, a + long)
                    => r.status = "outage"
           /\ summary.outage.total =
                SumOf([i \in 1..Len(samples) |->
                          IF samples[i].available THEN 0 ELSE until(i) - samples[i].elapsed],
                      Len(samples))[Len(samples)]
           /\ summary.outage.longest <= summary.outage.total

=============================================================================
