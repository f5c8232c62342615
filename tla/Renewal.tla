-------------------------------- MODULE Renewal --------------------------------
(***************************************************************************)
(* When the server renews its certificate: `acme::renewal_loop` looks at   *)
(* the TLS settings on disk at least every CheckEvery, decides (`tick`),   *)
(* calls `renew_once`, and keeps two schedules in memory: one for attempts *)
(* that fail (`Renewals`, with the loop's own backoff and the wait a CA    *)
(* imposes) and one for a state file that cannot be read.  The settings    *)
(* change underneath it: `server renew` puts another certificate there,    *)
(* another account or another CA, an editor makes the hub a manual one.    *)
(* How an attempt orders and publishes is module Issuance; here it is one  *)
(* start and one outcome, and what it does to the schedule.                *)
(***************************************************************************)
EXTENDS Integers, FiniteSets

CONSTANTS
  Directories,     \* ACME directories
  Accounts,        \* accounts at them
  Lifetimes,       \* of certificates, as the CAs issue them
  Unknown,         \* UNKNOWN_LIFETIME_RENEW_SECS
  Lead,            \* RENEWAL_LEAD_SECS
  CheckEvery,      \* CHECK_EVERY
  RetryBase,       \* RETRY_BASE
  RetryCap,        \* RETRY_CAP
  RateLimitedFloor, \* RATE_LIMITED_FLOOR
  RetryAfters,     \* waits a CA names, 0 when it names none
  MaxCount,        \* u32::MAX, where the count of failures saturates
  MaxTime,         \* bound: the clock stops
  MaxAttempt,      \* bound: how long an attempt talks to the CA
  MaxFailures,     \* bound: attempts and readings that fail
  MaxChanges       \* bound: settings changed underneath the loop, restarts

Larger(a, b) == IF a > b THEN a ELSE b
Smaller(a, b) == IF a < b THEN a ELSE b

ASSUME DirectoriesAssumption == "none" \notin Directories /\ Directories # {}
ASSUME TimesAssumption ==
  /\ {Unknown, Lead, RateLimitedFloor, MaxTime, MaxAttempt, MaxFailures, MaxChanges} \subseteq Nat
  /\ {CheckEvery, RetryBase, RetryCap, MaxCount} \subseteq Nat \ {0}
  /\ RetryAfters \subseteq Nat
  /\ Lifetimes \subseteq Nat

\* A certificate lives longer than Lead, and is not due before an attempt and any
\* wait that a CA names are over.
ASSUME LifetimesAssumption ==
  /\ Lead > 0 /\ Unknown > 0
  /\ \A l \in Lifetimes :
       /\ l > Lead
       /\ \A wait \in RetryAfters \cup {RateLimitedFloor} :
            MaxAttempt + wait <= Smaller((l * 2) \div 3, l - Lead)

\* Doubling reaches RetryCap before the code stops doubling.
ASSUME PowersAssumption ==
  \A n \in 0 .. MaxFailures + MaxChanges + 16 :
    /\ 2 ^ n \in Nat
    /\ n >= Smaller(MaxCount - 1, 16) => RetryBase * 2 ^ n >= RetryCap

VARIABLES
  now,       \* the hub's clock
  tls,       \* the TLS section of state.json
  renewals,  \* the schedule of attempts
  failing,   \* the schedule of readings: `unreadable`
  loop,      \* where renewal_loop is
  waits,     \* history: how long each CA has asked to be left alone
  streak,    \* history: attempts that failed in a row, and against what
  budget     \* what is left of the bounds

renewalVars == <<now, tls, renewals, failing, loop, waits, streak, budget>>

-----------------------------------------------------------------------------
(* Values.  An absent value is the empty set, a present one a singleton.   *)

The(option) == CHOOSE x \in option : TRUE

\* What a failure is held against.
Attempts == [directory: Directories, account: Accounts, issued: Int]

Acme ==
  [source: {"acme"}, directory: Directories, account: Accounts,
   challenge: {"http-01", "dns-01"}, issued: Int, expires: SUBSET Int, renew: Int]
Manual ==
  [source |-> "manual", directory |-> "none", account |-> "none",
   challenge |-> "http-01", issued |-> 0, expires |-> {}, renew |-> 0]
Tls == Acme \cup {Manual}

\* Attempt::of; a hub that renews nothing has no attempt.
AttemptOf(settings) ==
  IF settings = Manual THEN {}
  ELSE {[directory |-> settings.directory, account |-> settings.account,
         issued |-> settings.issued]}

Schedule ==
  [failures: 0 .. MaxCount, not_before: Int, against: SUBSET Attempts,
   cooldown: SUBSET [until: Int, directory: Directories]]

\* Renewals::new.
Fresh == [failures |-> 0, not_before |-> 0, against |-> {}, cooldown |-> {}]

\* at: when this turn of the loop began; current: what it read; witness: what
\* the attempt read again under the issuance lock; begun: when; wake: when a
\* sleeping loop looks again.
Loop ==
  [pc: {"look", "renew", "order", "sleep"}, at: Int, current: SUBSET Tls,
   witness: SUBSET Tls, begun: Int, wake: Int]

-----------------------------------------------------------------------------
(* Deciding.                                                               *)

\* Mutation: the third that should be left is taken for the part to use.
RenewAfterAThird(issued, expires) ==
  IF expires = {} THEN issued + Unknown
  ELSE issued + (The(expires) - issued) \div 3

\* renew_after: two thirds of the lifetime, in whole seconds.
RenewAfter(issued, expires) ==
  IF expires = {} THEN issued + Unknown
  ELSE issued + ((The(expires) - issued) * 2) \div 3

\* renewal_due: the plan, or the last Lead of the certificate.
RenewalDue(settings) ==
  IF settings.expires = {} THEN settings.renew
  ELSE Smaller(settings.renew, The(settings.expires) - Lead)

\* Acme::issued.
Issued(settings, directory, account, at, expires) ==
  [source |-> "acme", directory |-> directory, account |-> account,
   challenge |-> IF settings = Manual THEN "http-01" ELSE settings.challenge,
   issued |-> at, expires |-> expires, renew |-> RenewAfter(at, expires)]

\* Mutation: every failure waits as long as the first.
RetryDelayFlat(failures) == Smaller(RetryBase, RetryCap)

\* retry_delay: doubling to the cap.
RetryDelay(failures) ==
  LET doublings == Smaller(Larger(failures - 1, 0), 16)
  IN Smaller(RetryBase * 2 ^ doublings, RetryCap)

\* ca_cooldown: what the CA said about timing, 0 when it said nothing.
CaCooldown(limited, retry_after) ==
  Larger(IF limited THEN RateLimitedFloor ELSE 0, retry_after)

\* Renewals::not_before.
NotBefore(schedule) ==
  IF schedule.cooldown = {} THEN schedule.not_before
  ELSE Larger(schedule.not_before, The(schedule.cooldown).until)

\* A wait the CA asks for; one that stands and is no shorter stays.
Cooldown(standing, until, against) ==
  IF \E c \in standing : c.until >= until THEN standing
  ELSE {[until |-> until, directory |-> a.directory] : a \in against}

\* Renewals::failed.
Failed(schedule, time, imposed, against) ==
  LET failures == Smaller(schedule.failures + 1, MaxCount)
  IN [failures   |-> failures,
      not_before |-> time + RetryDelay(failures),
      against    |-> against,
      cooldown   |-> IF imposed = 0 THEN schedule.cooldown
                     ELSE Cooldown(schedule.cooldown, time + imposed, against)]

\* A cooldown without the CA that imposed it, at another one.
Elsewhere(cooldown, directories) ==
  {c \in cooldown : \A d \in directories : d = c.directory}

\* Mutation: a certificate from elsewhere leaves the backoff as it is.
SettingsChangedUnforgiving(schedule, settings) ==
  [schedule EXCEPT !.cooldown = Elsewhere(@, {a.directory : a \in AttemptOf(settings)})]

\* Mutation: other settings lift the CA's wait.
SettingsChangedForgiving(schedule, settings) ==
  LET seen == AttemptOf(settings)
  IN IF schedule.against # {} /\ schedule.against # seen THEN Fresh
     ELSE [schedule EXCEPT !.cooldown = {}]

\* Renewals::settings_changed.  Another certificate is a success of somebody's
\* and clears everything; another account or CA clears the backoff; the wait a
\* CA imposed is otherwise lifted by another CA alone.
SettingsChanged(schedule, settings) ==
  LET seen == AttemptOf(settings)
      kept == [schedule EXCEPT !.cooldown = Elsewhere(@, {a.directory : a \in seen})]
  IN IF schedule.against = {} \/ schedule.against = seen THEN kept
     ELSE IF \E a \in schedule.against : \A s \in seen : a.issued # s.issued THEN Fresh
     ELSE [Fresh EXCEPT !.cooldown = kept.cooldown]

\* tick, as the moment an attempt is allowed: none on a hub that renews nothing.
\* In the loop: now or earlier is Tick::Renew, later is NotDue or Waiting.
Allowed(settings, schedule, time) ==
  IF RenewalDue(settings) > time THEN RenewalDue(settings)
  ELSE Larger(RenewalDue(settings), NotBefore(schedule))

\* Mutation: CheckEvery is the least it sleeps.
SleepAtLeast(until, time) == time + Larger(until - time, CheckEvery)

\* sleep_for: to the moment, at least a second, at most CheckEvery.
SleepUntil(until, time) == time + Smaller(Larger(until - time, 1), CheckEvery)

-----------------------------------------------------------------------------
Spend(bound) ==
  /\ budget[bound] > 0
  /\ budget' = [budget EXCEPT ![bound] = @ - 1]

NoWaits == [d \in Directories |-> 0]
NoStreak == [against |-> {}, failures |-> 0, last |-> 0]
Awake == [pc |-> "look", at |-> 0, current |-> {}, witness |-> {}, begun |-> 0, wake |-> 0]

\* A server that starts, on a hub with a certificate from a CA or one of its
\* owner's.
RenewalInit ==
  /\ now = 1
  /\ tls \in {Manual} \cup {Issued(Manual, d, a, 0, e) : d \in Directories, a \in Accounts,
                                e \in {{}} \cup {{l} : l \in Lifetimes}}
  /\ renewals = Fresh
  /\ failing = Fresh
  /\ loop = Awake
  /\ waits = NoWaits
  /\ streak = NoStreak
  /\ budget = [failures |-> MaxFailures, changes |-> MaxChanges]

-----------------------------------------------------------------------------
(* The loop.                                                               *)

Sleep(until, current) ==
  loop' = [Awake EXCEPT !.pc = "sleep", !.at = now, !.current = current,
                        !.wake = SleepUntil(until, now)]

\* One turn: read the settings, forget what they make irrelevant, decide.
\* The listener is refreshed here too (Issuance!Tick).
LookAgain ==
  /\ loop.pc = "look"
  /\ failing' = Fresh
  /\ renewals' = SettingsChanged(renewals, tls)
  /\ IF tls = Manual THEN Sleep(now + CheckEvery, {tls})
     ELSE IF Allowed(tls, renewals', now) > now THEN Sleep(Allowed(tls, renewals', now), {tls})
     ELSE loop' = [Awake EXCEPT !.pc = "renew", !.at = now, !.current = {tls}]
  /\ UNCHANGED <<now, tls, waits, streak, budget>>

\* Mutation: a state file that cannot be read ends the task.
LookFailsForGood ==
  /\ loop.pc = "look"
  /\ Spend("failures")
  /\ loop' = [Awake EXCEPT !.pc = "sleep", !.at = now, !.wake = MaxTime + 1]
  /\ UNCHANGED <<now, tls, renewals, failing, waits, streak>>

\* The state cannot be read: nothing is decided, and the next look waits on a
\* schedule of its own.
LookFails ==
  /\ loop.pc = "look"
  /\ Spend("failures")
  /\ failing' = Failed(failing, now, 0, {})
  /\ Sleep(NotBefore(failing'), {})
  /\ UNCHANGED <<now, tls, renewals, waits, streak>>

\* tokio's sleep ends.
Wake ==
  /\ loop.pc = "sleep"
  /\ now >= loop.wake
  /\ loop' = Awake
  /\ UNCHANGED <<now, tls, renewals, failing, waits, streak, budget>>

\* renew_once takes the issuance lock and reads the state again.
BeginAttempt ==
  /\ loop.pc = "renew"
  /\ tls # Manual
  /\ loop' = [loop EXCEPT !.pc = "order", !.witness = {tls}, !.begun = now]
  /\ UNCHANGED <<now, tls, renewals, failing, waits, streak, budget>>

\* The failure is held against what this turn of the loop read.  The step was
\* Renew, for which sleep_for is zero: the loop looks again at once.
Failure(imposed) ==
  /\ renewals' = Failed(renewals, now, imposed, UNION {AttemptOf(t) : t \in loop.current})
  /\ loop' = Awake

\* History: one more failure against these settings, or the first.  A failure
\* under settings that arrived after this turn's reading is held against those
\* that are gone, and is none of theirs.
Counted(settings) ==
  LET against == AttemptOf(settings)
  IN IF \A t \in loop.current : AttemptOf(t) # against THEN UNCHANGED streak
     ELSE streak' = [against  |-> against,
                     failures |-> IF streak.against = against THEN streak.failures + 1 ELSE 1,
                     last     |-> now]

\* Another run is issuing, the state cannot be read, or the certificate has
\* become somebody else's: the CA is not asked.
NotBegun ==
  /\ loop.pc = "renew"
  /\ \/ Spend("failures")
     \/ tls = Manual /\ UNCHANGED budget
  /\ Failure(0)
  /\ Counted(tls)
  /\ UNCHANGED <<now, tls, failing, waits>>

\* The CA, or something on the way to it, refuses.
Refused ==
  /\ loop.pc = "order"
  /\ Spend("failures")
  /\ \E limited \in BOOLEAN, retry_after \in RetryAfters, settings \in loop.witness :
       LET imposed == CaCooldown(limited, retry_after)
       IN /\ Failure(imposed)
          /\ waits' = [waits EXCEPT ![settings.directory] =
                         IF imposed = 0 THEN @ ELSE Larger(@, now + imposed)]
          /\ Counted(settings)
  /\ UNCHANGED <<now, tls, failing>>

\* The settings are not those the attempt was for (RenewalFailure::local), or
\* the state file cannot be read or written under its lock.
NotRecorded ==
  /\ loop.pc = "order"
  /\ \/ Spend("failures")
     \/ {tls} # loop.witness /\ UNCHANGED budget
  /\ Failure(0)
  /\ \A settings \in loop.witness : Counted(settings)
  /\ UNCHANGED <<now, tls, failing, waits>>

\* A certificate, recorded as issued when the attempt began.  The loop does not
\* sleep before it looks again.
Renewed ==
  /\ loop.pc = "order"
  /\ {tls} = loop.witness
  /\ \E expires \in {{}} \cup {{now + l} : l \in Lifetimes} :
       tls' = Issued(tls, tls.directory, tls.account, loop.begun, expires)
  /\ renewals' = Fresh
  /\ loop' = Awake
  /\ waits' = NoWaits
  /\ streak' = NoStreak
  /\ UNCHANGED <<now, failing, budget>>

-----------------------------------------------------------------------------
(* Everything else.                                                        *)

\* The clock moves while the loop sleeps or waits for a CA; awake, it is quick.
TimePasses ==
  /\ now < MaxTime
  /\ \/ loop.pc = "sleep" /\ now < loop.wake
     \/ loop.pc = "order" /\ now < loop.begun + MaxAttempt
  /\ now' = now + 1
  /\ UNCHANGED <<tls, renewals, failing, loop, waits, streak, budget>>

\* `server renew` gets a certificate, at any CA and under any account; it holds
\* the issuance lock, and its certificate is not the second of one second.
CommandRenews ==
  /\ loop.pc # "order"
  /\ tls = Manual \/ tls.issued < now
  /\ Spend("changes")
  /\ \E d \in Directories, a \in Accounts, l \in Lifetimes :
       tls' = Issued(tls, d, a, now, {now + l})
  /\ waits' = NoWaits
  /\ streak' = NoStreak
  /\ UNCHANGED <<now, renewals, failing, loop>>

\* `server renew --acme-challenge`: the same request to the same CA.
CommandSwitches ==
  /\ loop.pc # "order"
  /\ tls # Manual
  /\ Spend("changes")
  /\ \E challenge \in {"http-01", "dns-01"} \ {tls.challenge} :
       tls' = [tls EXCEPT !.challenge = challenge]
  /\ UNCHANGED <<now, renewals, failing, loop, waits, streak>>

\* An editor: the certificate is its owner's from now on.
EditToManual ==
  /\ tls # Manual
  /\ Spend("changes")
  /\ tls' = Manual
  /\ UNCHANGED <<now, renewals, failing, loop, waits, streak>>

\* The server is stopped and started: the schedule lives in memory.
Restart ==
  /\ Spend("changes")
  /\ loop' = Awake
  /\ renewals' = Fresh
  /\ failing' = Fresh
  /\ waits' = NoWaits
  /\ streak' = NoStreak
  /\ UNCHANGED <<now, tls>>

Attempting == BeginAttempt \/ NotBegun \/ Refused \/ NotRecorded \/ Renewed
RenewalNext ==
  \/ LookAgain \/ LookFails \/ Wake \/ Attempting
  \/ TimePasses \/ CommandRenews \/ CommandSwitches \/ EditToManual
  \/ Restart

RenewalSpec == RenewalInit /\ [][RenewalNext]_renewalVars

\* The runtime polls the task, and time passes.
Fairness ==
  /\ WF_renewalVars(LookAgain \/ LookFails \/ Wake)
  /\ WF_renewalVars(Attempting)
  /\ WF_renewalVars(TimePasses)

RenewalFairSpec == RenewalSpec /\ Fairness
-----------------------------------------------------------------------------
(* Properties.                                                             *)

AtMostOne(option) == \A x, y \in option : x = y

RenewalTypeOK ==
  /\ now \in 1 .. MaxTime
  /\ tls \in Tls
  /\ {renewals, failing} \subseteq Schedule
  /\ loop \in Loop
  /\ waits \in [Directories -> Nat]
  /\ streak \in [against: SUBSET Attempts, failures: Nat, last: Int]
  /\ budget \in [failures: 0 .. MaxFailures, changes: 0 .. MaxChanges]
  /\ \A option \in {renewals.against, renewals.cooldown, loop.current, loop.witness} :
       AtMostOne(option)

\* RETRY_BASE, doubled for every failure after the first, up to RETRY_CAP.
Backoff(failures) == Smaller(RetryBase * 2 ^ (failures - 1), RetryCap)

\* The moment the failures against what is on disk allow the next attempt.
Earned ==
  IF streak.against = AttemptOf(tls) /\ streak.failures > 0
  THEN streak.last + Backoff(streak.failures)
  ELSE 0

Begins == loop.pc = "renew" /\ loop'.pc = "order"

\* No order goes to a CA before the time it asked to be left alone for is over,
\* whatever else changes in the meantime: Renewals::settings_changed lifts the
\* wait for a certificate or for another CA only.
CaWaitHonoured == [][Begins => now >= waits[tls.directory]]_renewalVars

\* Attempts under one account at one CA, for the same certificate, keep the
\* doubling distance whatever made them fail and whatever changed about the
\* challenge: Renewals::failed and settings_changed.
BackoffHonoured == [][Begins => now >= Earned]_renewalVars

\* And the converse: a sleeping loop waits for failures of what it would attempt
\* now and for the CA it would ask, never for those of settings that are gone.
WaitsNoLonger ==
  loop.pc = "sleep" /\ tls # Manual /\ loop.current = {tls} =>
    NotBefore(renewals) <= Larger(Earned, waits[tls.directory])

\* The loop that has just renewed looks again without sleeping, so what keeps it
\* from ordering for ever is the new certificate's plan: an attempt on the
\* certificate that was read starts in its second half or in its last Lead.
FreshLeftAlone ==
  [][Begins /\ loop.current = {tls} =>
       \/ tls.expires = {} /\ now >= tls.issued + Unknown
       \/ \E e \in tls.expires : \/ 2 * (now - tls.issued) >= e - tls.issued
                                \/ now >= e - Lead]_renewalVars

\* Nobody sleeps through it: once a certificate is due and neither its failures
\* nor the CA are in the way, the loop is not asleep over the settings it read;
\* over others it is for CheckEvery at most, unless it could not read them.
NotOverslept ==
  loop.pc = "sleep" /\ tls # Manual /\ loop.current # {} =>
    now <= Larger(loop.at + 1,
             Larger(RenewalDue(tls), Larger(Earned, waits[tls.directory]))
             + IF loop.current = {tls} THEN 0 ELSE CheckEvery)

\* The loop waits as long as the CA and its own failures ask, and no longer; it
\* leaves a fresh certificate alone; it sleeps through nothing it should see.
ScheduleKept ==
  /\ CaWaitHonoured /\ BackoffHonoured /\ FreshLeftAlone
  /\ [](WaitsNoLonger /\ NotOverslept)

\* All the time that failures, what a CA asks for and unreadable files can take.
Longest ==
  LET wait == CHOOSE w \in RetryAfters \cup {RetryCap, RateLimitedFloor, CheckEvery} :
                \A r \in RetryAfters \cup {RetryCap, RateLimitedFloor, CheckEvery} : w >= r
  IN (MaxFailures + 1) * (wait + MaxAttempt) + CheckEvery

\* A certificate that is due is replaced, through failures, rate limits and an
\* unreadable state file, if the clock runs long enough for all of them.
Due == tls # Manual /\ now >= RenewalDue(tls)
RenewedInTime == (Due /\ now + Longest <= MaxTime) ~> ~Due
================================================================================
